---- MODULE Spec2Model ----
(***************************************************************************)
(* Model of the text-to-speech hooks of src/src/hooks/useNativeTTS.ts:     *)
(*   useNativeTTS   - Web Speech driver (chunk loop, watchdog, retries)    *)
(*   useSmartTTS    - premium-first orchestration with Web Speech fallback *)
(*   useSpeechifyTTS- premium-only hook                                    *)
(* A text is a sequence of characters; a character is a one-token string.  *)
(* One action is one browser task: an event handler or timer callback      *)
(* together with the promise continuations (microtasks) it releases, up to *)
(* the next await.                                                         *)
(***************************************************************************)
EXTENDS Integers, Sequences, FiniteSets, TLC

(***************************************************************************)
(* Characters.  "EMOJI" stands for a code point of the emoji ranges that   *)
(* sanitizeText removes (U+1F600 is two UTF-16 units), "NL" for a newline, *)
(* "BACKTICK" for the code-span marker and "DANDA" for U+0964.              *)
(***************************************************************************)
Whitespace == {" ", "NL"}

LineTerminators == {"NL"}

EmojiChars == {"EMOJI"}

\* String.prototype.length counts UTF-16 code units.
JsLen(s) == Len(s) + Cardinality({i \in 1..Len(s) : s[i] \in EmojiChars})

\* s.substring(from - 1, to) for 1-based inclusive indices.
Slice(s, from, to) == IF from > to THEN <<>> ELSE SubSeq(s, from, to)

\* Least element of a non-empty set of indices.
MinOf(S) == CHOOSE i \in S : \A k \in S : i <= k

MaxOf(S) == CHOOSE i \in S : \A k \in S : i >= k

StartsAt(s, d, i) ==
  /\ i + Len(d) - 1 <= Len(s)
  /\ \A k \in 1..Len(d) : s[i + k - 1] = d[k]

\* replace(/[emoji ranges]/gu, EMPTY)
RemoveEmoji(s) == SelectSeq(s, LAMBDA c : c \notin EmojiChars)

\* The first index j >= from where the delimiter d closes a non-greedy
\* (.*?) that started at from; 0 when there is none (the dot matches no newline).
ClosingAt(s, d, from) ==
  LET cands == {j \in from..Len(s) :
                  /\ StartsAt(s, d, j)
                  /\ \A m \in from..(j - 1) : s[m] \notin LineTerminators}
  IN IF cands = {} THEN 0 ELSE MinOf(cands)

\* replace(/D(.*?)D/g, $1) for a literal delimiter D: the matches are taken
\* left to right, each as short as possible, and never overlap.
RECURSIVE StripPairFrom(_, _, _)
StripPairFrom(s, d, from) ==
  LET opens == {i \in from..Len(s) :
                  StartsAt(s, d, i) /\ ClosingAt(s, d, i + Len(d)) # 0}
  IN IF opens = {} THEN Slice(s, from, Len(s))
     ELSE LET i == MinOf(opens)
              j == ClosingAt(s, d, i + Len(d))
          IN Slice(s, from, i - 1) \o Slice(s, i + Len(d), j - 1)
               \o StripPairFrom(s, d, j + Len(d))

StripPair(s, d) == StripPairFrom(s, d, 1)

\* First index >= i whose character is outside cls (Len(s) + 1 when none).
RunStop(s, cls, i) ==
  LET out == {j \in i..Len(s) : s[j] \notin cls}
  IN IF out = {} THEN Len(s) + 1 ELSE MinOf(out)

\* replace(/#{1,6}\s/g, EMPTY): a run of k hashes matches at its start only
\* when k <= 6 and whitespace follows; otherwise the scan moves on by one.
HeadingAt(s, i) ==
  LET k == RunStop(s, {"#"}, i) - i
  IN k >= 1 /\ k <= 6 /\ i + k <= Len(s) /\ s[i + k] \in Whitespace

RECURSIVE StripHeadingsFrom(_, _)
StripHeadingsFrom(s, from) ==
  LET hits == {i \in from..Len(s) : HeadingAt(s, i)}
  IN IF hits = {} THEN Slice(s, from, Len(s))
     ELSE LET i == MinOf(hits)
          IN Slice(s, from, i - 1) \o StripHeadingsFrom(s, RunStop(s, {"#"}, i) + 1)

\* replace(/X+/g, rep) for a replacement of one or two characters: every
\* maximal run of characters of cls becomes rep.
ReplaceRuns(s, cls, rep) ==
  LET slots == [k \in 1..(2 * Len(s)) |->
                  [c |-> s[(k + 1) \div 2],
                   first |-> k % 2 = 1,
                   runStart |-> (k + 1) \div 2 = 1 \/ s[((k + 1) \div 2) - 1] \notin cls]]
      kept == SelectSeq(slots, LAMBDA q :
                IF q.c \in cls THEN q.runStart /\ (q.first \/ Len(rep) = 2)
                ELSE q.first)
  IN [k \in 1..Len(kept) |->
        IF kept[k].c \in cls THEN (IF kept[k].first THEN rep[1] ELSE rep[2])
        ELSE kept[k].c]

\* String.prototype.trim
Trim(s) ==
  LET keep == {i \in 1..Len(s) : s[i] \notin Whitespace}
  IN IF keep = {} THEN <<>> ELSE Slice(s, MinOf(keep), MaxOf(keep))

sanitizeText(text) ==
  Trim(ReplaceRuns(ReplaceRuns(
    StripHeadingsFrom(StripPair(StripPair(StripPair(RemoveEmoji(text),
        <<"*", "*">>), <<"*">>), <<"BACKTICK">>), 1),
    LineTerminators, <<".", " ">>), Whitespace, <<" ">>))

(***************************************************************************)
(* Chunker of the Web Speech driver.                                       *)
(***************************************************************************)
SentenceEnders == {"DANDA", ".", "!", "?", ",", ";"}

\* text.split(/(?<=[enders])\s+/): cut at every whitespace run that directly
\* follows a sentence ender; the run itself is dropped.
RECURSIVE SplitAfterFrom(_, _, _)
SplitAfterFrom(s, enders, from) ==
  LET cuts == {i \in from..Len(s) :
                 s[i] \in Whitespace /\ i > 1 /\ s[i - 1] \in enders}
  IN IF cuts = {} THEN <<Slice(s, from, Len(s))>>
     ELSE LET i == MinOf(cuts)
          IN <<Slice(s, from, i - 1)>>
               \o SplitAfterFrom(s, enders, RunStop(s, Whitespace, i))

SplitAfter(s, enders) == SplitAfterFrom(s, enders, 1)

\* sentence.split(/\s+/)
RECURSIVE SplitWsFrom(_, _)
SplitWsFrom(s, from) ==
  LET cuts == {i \in from..Len(s) : s[i] \in Whitespace}
  IN IF cuts = {} THEN <<Slice(s, from, Len(s))>>
     ELSE LET i == MinOf(cuts)
          IN <<Slice(s, from, i - 1)>> \o SplitWsFrom(s, RunStop(s, Whitespace, i))

SplitWs(s) == SplitWsFrom(s, 1)

\* x += (x ? SPACE : EMPTY) + y
JoinSpace(x, y) == IF x = <<>> THEN y ELSE x \o <<" ">> \o y

\* if (x) chunks.push(x)
PushNonEmpty(chunks, x) == IF x = <<>> THEN chunks ELSE Append(chunks, x)

\* A word loop that starts the next chunk empty instead of with the word
\* that did not fit.
RECURSIVE WordLoopDropsWord(_, _, _, _, _)
WordLoopDropsWord(words, k, maxLength, chunks, wordChunk) ==
  IF k > Len(words) THEN [chunks |-> chunks, cur |-> wordChunk]
  ELSE IF JsLen(wordChunk) + JsLen(words[k]) + 1 <= maxLength
       THEN WordLoopDropsWord(words, k + 1, maxLength, chunks,
                              JoinSpace(wordChunk, words[k]))
       ELSE WordLoopDropsWord(words, k + 1, maxLength,
                              PushNonEmpty(chunks, wordChunk), <<>>)

\* The word loop of splitIntoChunks for one over-long sentence.
RECURSIVE WordLoop(_, _, _, _, _)
WordLoop(words, k, maxLength, chunks, wordChunk) ==
  IF k > Len(words) THEN [chunks |-> chunks, cur |-> wordChunk]
  ELSE IF JsLen(wordChunk) + JsLen(words[k]) + 1 <= maxLength
       THEN WordLoop(words, k + 1, maxLength, chunks, JoinSpace(wordChunk, words[k]))
       ELSE WordLoop(words, k + 1, maxLength, PushNonEmpty(chunks, wordChunk), words[k])

\* The sentence loop of splitIntoChunks.
RECURSIVE SentenceLoop(_, _, _, _, _)
SentenceLoop(sentences, k, maxLength, chunks, currentChunk) ==
  IF k > Len(sentences) THEN PushNonEmpty(chunks, currentChunk)
  ELSE LET sentence == sentences[k] IN
       IF JsLen(currentChunk) + JsLen(sentence) <= maxLength
       THEN SentenceLoop(sentences, k + 1, maxLength, chunks,
                         JoinSpace(currentChunk, sentence))
       ELSE IF JsLen(sentence) > maxLength
            THEN LET w == WordLoop(SplitWs(sentence), 1, maxLength,
                                   PushNonEmpty(chunks, currentChunk), <<>>)
                 IN SentenceLoop(sentences, k + 1, maxLength, w.chunks, w.cur)
            ELSE SentenceLoop(sentences, k + 1, maxLength,
                              PushNonEmpty(chunks, currentChunk), sentence)

\* chunks.filter(c => c.trim().length > 0)
DropBlank(chunks) == SelectSeq(chunks, LAMBDA c : Trim(c) # <<>>)

splitIntoChunks(text, maxLength) ==
  IF JsLen(text) <= maxLength THEN <<text>>
  ELSE DropBlank(SentenceLoop(SplitAfter(text, SentenceEnders), 1, maxLength, <<>>, <<>>))

(***************************************************************************)
(* Chunker of the native bridge (exported splitForNativeTTS).              *)
(***************************************************************************)
NativeSentenceEnders == {"DANDA", ".", "!", "?"}

\* The sentence loop of splitForNativeTTS.
RECURSIVE NativeLoop(_, _, _, _, _)
NativeLoop(sentences, k, maxLength, chunks, current) ==
  IF k > Len(sentences) THEN PushNonEmpty(chunks, current)
  ELSE IF JsLen(current) + JsLen(sentences[k]) <= maxLength
       THEN NativeLoop(sentences, k + 1, maxLength, chunks,
                       JoinSpace(current, sentences[k]))
       ELSE NativeLoop(sentences, k + 1, maxLength,
                       PushNonEmpty(chunks, current), sentences[k])

splitForNativeTTS(text, maxLength) ==
  IF JsLen(text) <= maxLength THEN <<text>>
  ELSE DropBlank(NativeLoop(SplitAfter(text, NativeSentenceEnders), 1, maxLength,
                            <<>>, <<>>))

(***************************************************************************)
(* Script detector (exported detectLanguage).  "KA" stands for a           *)
(* Devanagari letter; the danda U+0964 lies in the same block.             *)
(***************************************************************************)
DevanagariChars == {"KA", "DANDA"}

LatinLetters == {"a", "b", "h", "i", "Z"}

\* (text.match(/[class]/g) || []).length
CountIn(text, cls) == Cardinality({k \in 1..Len(text) : text[k] \in cls})

\* A detector whose threshold is reached at a ratio of exactly 0.3.
detectLanguageAtLeast(text) ==
  LET hindiChars == CountIn(text, DevanagariChars)
      totalRelevant == hindiChars + CountIn(text, LatinLetters)
  IN IF text = <<>> \/ totalRelevant = 0 THEN "hi-IN"
     ELSE IF 10 * hindiChars >= 3 * totalRelevant THEN "hi-IN" ELSE "en-IN"

\* hindiRatio > 0.3 compares the double nearest to hindiChars / totalRelevant
\* with the double nearest to 3/10.  Rounding is monotone, and a quotient
\* above 3/10 exceeds it by at least 1 / (10 * totalRelevant), far more than
\* the spacing of doubles for any text length, so the test is
\* 10 * hindiChars > 3 * totalRelevant.
detectLanguage(text) ==
  LET hindiChars == CountIn(text, DevanagariChars)
      englishChars == CountIn(text, LatinLetters)
      totalRelevant == hindiChars + englishChars
  IN IF text = <<>> THEN "hi-IN"
     ELSE IF totalRelevant = 0 THEN "hi-IN"
     ELSE IF 10 * hindiChars > 3 * totalRelevant THEN "hi-IN" ELSE "en-IN"

(***************************************************************************)
(* Voice selection.  A voice is its name and its lang, both as character   *)
(* sequences; "HA", "SIGN_I", "NA", "VIRAMA", "DA", "SIGN_II" are the      *)
(* Devanagari letters of the vendor name in hindiMaleNames.                *)
(***************************************************************************)
UpperCase == {"F", "H", "I", "L", "N", "S", "U", "Z"}

LowerOf ==
  [c \in UpperCase |->
     CASE c = "F" -> "f" [] c = "H" -> "h" [] c = "I" -> "i" [] c = "L" -> "l"
       [] c = "N" -> "n" [] c = "S" -> "s" [] c = "U" -> "u" [] OTHER -> "z"]

\* String.prototype.toLowerCase
ToLowerCase(s) == [k \in 1..Len(s) |-> IF s[k] \in UpperCase THEN LowerOf[s[k]] ELSE s[k]]

\* String.prototype.includes
Includes(s, sub) == \E k \in 1..Len(s) : StartsAt(s, sub, k)

\* String.prototype.startsWith
StartsWith(s, prefix) == StartsAt(s, prefix, 1)

NoVoice == [name |-> <<>>, lang |-> <<>>]

\* Array.prototype.find, with NoVoice for undefined
Find(voices, P(_)) ==
  LET hits == {k \in 1..Len(voices) : P(voices[k])}
  IN IF hits = {} THEN NoVoice ELSE voices[MinOf(hits)]

hindiMaleNames ==
  {<<"g", "o", "o", "g", "l", "e", " ", "HA", "SIGN_I", "NA", "VIRAMA", "DA", "SIGN_II">>,
   <<"g", "o", "o", "g", "l", "e", " ", "h", "i", "n", "d", "i">>,
   <<"m", "a", "d", "h", "u", "r">>,
   <<"h", "e", "m", "a", "n", "t">>,
   <<"p", "r", "a", "b", "h", "a", "t">>,
   <<"m", "i", "c", "r", "o", "s", "o", "f", "t", " ", "m", "a", "d", "h", "u", "r">>,
   <<"s", "a", "m", "s", "u", "n", "g", " ", "h", "i", "n", "d", "i", " ", "m", "a", "l", "e">>,
   <<"h", "i", "n", "d", "i", " ", "m", "a", "l", "e">>,
   <<"h", "i", "n", "d", "i", " ", "i", "n", "d", "i", "a", " ", "m", "a", "l", "e">>,
   <<"m", "a", "l", "e", " ", "h", "i", "n", "d", "i">>,
   <<"v", "a", "n", "i">>}

HiIN == <<"h", "i", "-", "I", "N">>

EnIN == <<"e", "n", "-", "I", "N">>

isHindiMale(v) ==
  LET n == ToLowerCase(v.name)
      isHindi == v.lang = HiIN \/ StartsWith(v.lang, <<"h", "i">>)
      isMale == \/ \E name \in hindiMaleNames : Includes(n, name)
                \/ /\ ~Includes(n, <<"f", "e", "m", "a", "l", "e">>)
                   /\ ~Includes(n, <<"s", "w", "a", "r", "a">>)
                   /\ ~Includes(n, <<"l", "e", "k", "h", "a">>)
  IN isHindi /\ isMale

isIndianEnglishMale(v) ==
  LET n == ToLowerCase(v.name)
  IN /\ v.lang = EnIN
     /\ \/ Includes(n, <<"r", "a", "v", "i">>)
        \/ Includes(n, <<"m", "a", "l", "e">>)
        \/ /\ ~Includes(n, <<"f", "e", "m", "a", "l", "e">>)
           /\ ~Includes(n, <<"h", "e", "e", "r", "a">>)

\* A choice that takes the first voice of the list.
getFirstVoice(availableVoices, engineVoices) ==
  LET voices == IF Len(availableVoices) > 0 THEN availableVoices ELSE engineVoices
  IN IF Len(voices) = 0 THEN NoVoice ELSE voices[1]

\* getBestVoice(), given the availableVoices state and what
\* speechSynthesis.getVoices() returns; NoVoice for null
getBestVoice(availableVoices, engineVoices) ==
  LET voices == IF Len(availableVoices) > 0 THEN availableVoices ELSE engineVoices
      hindiMaleVoice == Find(voices, isHindiMale)
      hindiVoice == Find(voices, LAMBDA v : v.lang = HiIN)
      hindiAny == Find(voices, LAMBDA v : StartsWith(v.lang, <<"h", "i">>))
      indianEnglishMale == Find(voices, isIndianEnglishMale)
      indianEnglish == Find(voices, LAMBDA v : v.lang = EnIN)
      english == Find(voices, LAMBDA v : StartsWith(v.lang, <<"e", "n">>))
  IN IF Len(voices) = 0 THEN NoVoice
     ELSE IF hindiMaleVoice # NoVoice THEN hindiMaleVoice
     ELSE IF hindiVoice # NoVoice THEN hindiVoice
     ELSE IF hindiAny # NoVoice THEN hindiAny
     ELSE IF indianEnglishMale # NoVoice THEN indianEnglishMale
     ELSE IF indianEnglish # NoVoice THEN indianEnglish
     ELSE IF english # NoVoice THEN english
     ELSE voices[1]

\* The voice tryWebSpeech speaks with: the voice of the requested name among
\* speechSynthesis.getVoices(), else getBestVoice().  voiceName is <<>> when
\* none was requested.
selectVoice(availableVoices, engineVoices, voiceName) ==
  LET voice == IF voiceName # <<>>
               THEN Find(engineVoices, LAMBDA v : v.name = voiceName)
               ELSE NoVoice
  IN IF voice = NoVoice THEN getBestVoice(availableVoices, engineVoices) ELSE voice

(***************************************************************************)
(* Sample texts of the calls.  "long" is two sentences of 80 and 81        *)
(* characters: longer than one Web Speech chunk, so it is spoken as two.   *)
(* "many" is ManyChunks sentences of 80 characters, spoken as one chunk    *)
(* each; it is the text of the runs that follow the retries of             *)
(* tryWebSpeech.                                                           *)
(***************************************************************************)
SentenceLen == 80

Sentence(n) == [k \in 1..n |-> IF k = n THEN "." ELSE "a"]

ManyChunks == 6

\* k sentences of n characters, with a space between them
Sentences(k, n) ==
  [j \in 1..(k * (n + 1) - 1) |->
     IF j % (n + 1) = 0 THEN " " ELSE IF j % (n + 1) = n THEN "." ELSE "a"]

SampleTexts ==
  [blank |-> <<" ">>,
   emoji |-> <<"EMOJI">>,
   short |-> <<"h", "i">>,
   long  |-> Sentence(SentenceLen) \o <<" ">> \o Sentence(SentenceLen + 1),
   many  |-> Sentences(ManyChunks, SentenceLen)]

TextIds == DOMAIN SampleTexts

\* The texts of the callers that make more than one call.
CallTexts == TextIds \ {"many"}

\* splitIntoChunks(cleanText, 150) in tryWebSpeech
WebChunkLen == 150

CleanOf == [t \in TextIds |-> sanitizeText(SampleTexts[t])]

ChunksOf == [t \in TextIds |-> splitIntoChunks(CleanOf[t], WebChunkLen)]

\* text.length of the raw text, as useSmartTTS.speak measures it
TextLength(t) == JsLen(SampleTexts[t])

\* !text || text.trim().length === 0
IsBlank(t) == Trim(SampleTexts[t]) = <<>>

(***************************************************************************)
(* Bounds and program constants.                                           *)
(***************************************************************************)
MaxCalls == 2

CallIds == 1..MaxCalls

MAX_CONSECUTIVE_FAILURES == 5

WatchdogPeriodMs == 400

SilenceWindowMs == 1500

NeverStartedMs == 2000

DefaultTtsLimit == 150000

\* setTimeout(r, 300 + consecutiveFailures * 200) and setTimeout(r, 800)
BackoffBaseMs == 300

BackoffStepMs == 200

FinalBackoffMs == 800

LowQuota == 100

VARIABLES
  hook,            \* which hook the component mounted: "web", "smart", "speechify"
  isSupported,     \* useNativeTTS isSupported: speechSynthesis exists
  isMobile,        \* the user agent test of tryWebSpeech
  engineMode,      \* speechSynthesis.speak: "ok", "dead" (accepts, does nothing), "throws"
  studentId,       \* argument of useSmartTTS: "none" or an id
  calls,           \* the speak() invocations and where each is suspended
  isCancelledRef, heartbeatRef, heartbeats, chunksRef, currentChunkIndexRef,
  utteranceRef, isSpeaking, activeEngine,        \* useNativeTTS
  synthQueue, synthSpeaking, synthCancelled,     \* window.speechSynthesis
  state,           \* useSmartTTS / useSpeechifyTTS state
  usageInfo,       \* state.usageInfo
  audioRef, audio, \* audioRef.current and the Audio elements, one per call
  clientAudioCache,
  androidTTS,      \* window.AndroidTTS: "absent" or "present"
  onAndroidTTSDone, onAndroidTTSError,  \* the window callbacks: 0 or the call that set them
  nativeCalls,     \* the promises speakWithAndroidNative returned
  bridgeQueue,     \* what the bridge was asked to speak and has not answered
  segment,         \* one speakChunkWeb promise: its closure variables and timers
  now,             \* Date.now(), in ms, while that promise is followed
  keepAlive,       \* speechSynthesis.paused and the heartbeat's pending resume timers
  probe,           \* the arguments of the last call of an exported function
  answer,          \* and what it returned
  sessionTokens, schools, students,  \* the tables the approval handler reads and writes
  approval,        \* one run of the school-student-approval handler
  serverClock,     \* Date.now() of the edge functions, in ms
  audioCache,      \* the text-to-speech edge function's in-memory Map, in insertion order
  ttsRequests,     \* its requests: waiting for Speechify, or answered
  chapterRows,     \* the chapter_progress table
  chapterStudentId,  \* useChapterProgress: the student id, or "none"
  progress,        \* useChapterProgress: the local progress list
  toggles,         \* the toggleChapterComplete calls
  login,           \* the SchoolLogin component's state and its running handler
  storage,         \* sessionStorage and localStorage, as far as SchoolLogin writes them
  route            \* where the router is

env == <<hook, isSupported, isMobile, engineMode, studentId>>

approvalVars == <<sessionTokens, schools, students, approval>>

serverVars == <<serverClock, audioCache, ttsRequests>>

chapterVars == <<chapterRows, chapterStudentId, progress, toggles>>

loginVars == <<login, storage, route>>

\* What lives outside the speech hooks.
siteVars == <<approvalVars, serverVars, chapterVars, loginVars>>

\* The speech hooks, the bridge and their environment.
speechVars == <<hook, isSupported, isMobile, engineMode, studentId, calls,
                isCancelledRef, heartbeatRef, heartbeats, chunksRef, currentChunkIndexRef,
                utteranceRef, isSpeaking, activeEngine, synthQueue, synthSpeaking,
                synthCancelled, state, usageInfo, audioRef, audio, clientAudioCache,
                androidTTS, onAndroidTTSDone, onAndroidTTSError, nativeCalls, bridgeQueue,
                segment, now, keepAlive, probe, answer>>

vars == <<speechVars, siteVars>>

bridgeVars == <<androidTTS, onAndroidTTSDone, onAndroidTTSError, nativeCalls, bridgeQueue>>

\* The mutable state as one value, so that a handler is a function on it.
World ==
  [calls |-> calls, isCancelledRef |-> isCancelledRef, heartbeatRef |-> heartbeatRef,
   heartbeats |-> heartbeats, chunksRef |-> chunksRef,
   currentChunkIndexRef |-> currentChunkIndexRef, utteranceRef |-> utteranceRef,
   isSpeaking |-> isSpeaking, activeEngine |-> activeEngine,
   synthQueue |-> synthQueue, synthSpeaking |-> synthSpeaking,
   synthCancelled |-> synthCancelled, state |-> state, usageInfo |-> usageInfo,
   audioRef |-> audioRef, audio |-> audio, clientAudioCache |-> clientAudioCache]

NoResult == [success |-> FALSE, engine |-> "none", error |-> "unset"]

NoUtterance == [c |-> 0, i |-> 0, a |-> 0]

\* The utterances the calls can create: chunk i of call c, at attempt a (the
\* first try and the two retries of tryWebSpeech).
MaxAttempts == 3

Utterances ==
  [c : CallIds,
   i : 0 .. (MaxOf({Len(ChunksOf[t]) : t \in TextIds}) - 1),
   a : 1 .. MaxAttempts]

\* No pure function has been called.
NoProbe == [fn |-> "none"]

NoAnswer == [fn |-> "none"]

\* No request has reached the approval handler.
NoApproval == [pc |-> "none"]

\* The text-to-speech edge function has served nothing.
NoTtsRequests == [apiKey |-> TRUE, waiting |-> <<>>, response |-> [status |-> 0]]

\* SchoolLogin is not mounted.
NoLogin == [pc |-> "unmounted"]

\* Nothing outside the speech hooks has happened: empty tables, an empty
\* server cache, no chapter toggled and no login page.
SiteIdle ==
  /\ sessionTokens = {}
  /\ schools = {}
  /\ students = {}
  /\ approval = NoApproval
  /\ serverClock = 0
  /\ audioCache = <<>>
  /\ ttsRequests = NoTtsRequests
  /\ chapterRows = {}
  /\ chapterStudentId = "none"
  /\ progress = <<>>
  /\ toggles = <<>>
  /\ login = NoLogin
  /\ storage = {}
  /\ route = "/"

\* The engine is not paused and no resume() is scheduled; by is the call whose
\* heartbeat made the last pause().
NoPulse == [paused |-> FALSE, resumes |-> 0, by |-> 0]

NoUsage == [plan |-> "unknown", canUsePremium |-> FALSE, ttsRemaining |-> 0]

\* fails is consecutiveFailures; delay is the last backoff delay of the current
\* chunk; streak is history: the number of chunks in a row, up to the current
\* one, whose first attempt failed; stoppedEarly is the flag of the result
\* that the pending retry follows; stopped is history: the caller invoked
\* stop() while the call was in flight.
IdleCall ==
  [pc |-> "idle", text |-> "none", n |-> 0, i |-> 0, attempt |-> 0, fails |-> 0,
   streak |-> 0, stoppedEarly |-> FALSE, stopped |-> FALSE,
   spoke |-> FALSE, wdOn |-> FALSE, ticked |-> FALSE, silent |-> -1,
   early |-> FALSE, ns |-> FALSE, behind |-> 0, delay |-> 0,
   prem |-> "none", res |-> NoResult]

InFlight(c) == calls[c].pc \notin {"idle", "done"}

(***************************************************************************)
(* window.speechSynthesis                                                  *)
(***************************************************************************)
CurrentUtterance(w, c) == [c |-> c, i |-> w.calls[c].i, a |-> w.calls[c].attempt]

\* The utterance's promise is still unsettled (speakChunkWeb's settled flag).
Unsettled(w, u) == w.calls[u.c].pc = "chunk" /\ CurrentUtterance(w, u.c) = u

QueueSet(q) == {q[k] : k \in 1..Len(q)}

\* speechSynthesis.cancel(): the queue is emptied at once; the engine may later
\* report each removed utterance as interrupted / canceled (or ended).
synthCancel(w) ==
  [w EXCEPT !.synthQueue = <<>>,
            !.synthSpeaking = FALSE,
            !.synthCancelled = @ \union {u \in QueueSet(w.synthQueue) : Unsettled(w, u)}]

\* speechSynthesis.speak(utterance) on a working engine
synthSpeak(w, u) == [w EXCEPT !.synthQueue = Append(@, u)]

\* !speechSynthesis.speaking && !speechSynthesis.pending
EngineSilent(w) == w.synthQueue = <<>>

(***************************************************************************)
(* The two useEffect hooks of useSmartTTS that copy nativeTTS.isSpeaking   *)
(* and nativeTTS.activeEngine into its own state.  They run after a render *)
(* in which their dependencies changed.                                    *)
(***************************************************************************)
SyncSpeaking(old, w) ==
  IF w.isSpeaking = old.isSpeaking THEN w
  ELSE IF w.isSpeaking THEN [w EXCEPT !.state.isSpeaking = TRUE]
  ELSE IF w.audioRef = 0 THEN [w EXCEPT !.state.isSpeaking = FALSE]
  ELSE w

SyncEngine(old, w) ==
  IF w.activeEngine = old.activeEngine /\ w.state.activeEngine = old.state.activeEngine
  THEN w
  ELSE IF w.activeEngine = "web" /\ w.state.activeEngine # "premium"
       THEN [w EXCEPT !.state.activeEngine = "web"]
       ELSE w

Effects(old, w) == IF hook = "smart" THEN SyncEngine(old, SyncSpeaking(old, w)) ELSE w

(***************************************************************************)
(* useNativeTTS                                                            *)
(***************************************************************************)
\* if (heartbeatRef.current) { clearInterval(heartbeatRef.current); heartbeatRef.current = null }
clearHeartbeat(w) ==
  [w EXCEPT !.heartbeats = @ \ {w.heartbeatRef}, !.heartbeatRef = 0]

\* A stop that leaves the chunk list in place.
nativeStopKeepsChunks(w) ==
  LET w1 == [w EXCEPT !.isCancelledRef = TRUE]
      w2 == IF isSupported THEN synthCancel(w1) ELSE w1
      w3 == clearHeartbeat(w2)
  IN [w3 EXCEPT !.utteranceRef = NoUtterance,
                !.isSpeaking = FALSE,
                !.activeEngine = "none"]

\* useNativeTTS.stop
nativeStop(w) ==
  LET w1 == [w EXCEPT !.isCancelledRef = TRUE]
      w2 == IF isSupported THEN synthCancel(w1) ELSE w1
      w3 == clearHeartbeat(w2)
  IN [w3 EXCEPT !.utteranceRef = NoUtterance,
                !.chunksRef = "none",
                !.currentChunkIndexRef = 0,
                !.isSpeaking = FALSE,
                !.activeEngine = "none"]

\* The call has returned: nothing of it is scheduled any more.
Finished(w, c, res) ==
  [w EXCEPT !.calls[c] = [IdleCall EXCEPT !.pc = "done", !.text = w.calls[c].text,
                                          !.prem = w.calls[c].prem, !.res = res],
            !.synthCancelled = {u \in @ : u.c # c}]

\* useSmartTTS.speakWeb after "await nativeTTS.speak", and the rest of
\* useSmartTTS.speak after "await speakWeb"
speakWebResult(w, c, res) ==
  LET w1 == [w EXCEPT !.state.activeEngine = IF res.engine = "web" THEN "web" ELSE "none"]
      w2 == IF res.success THEN w1
            ELSE [w1 EXCEPT !.state.isLoading = FALSE,
                            !.state.isSpeaking = FALSE,
                            !.state.error = "Voice playback failed. Try again!",
                            !.state.activeEngine = "none"]
  IN Finished(w2, c, res)

\* The promise of useNativeTTS.speak resolves with res.
nativeReturn(w, c, res) ==
  IF hook = "smart" THEN speakWebResult(w, c, res) ELSE Finished(w, c, res)

\* The end of useNativeTTS.speak: tryWebSpeech after its loop, the result, and
\* the finally block.
webSpeechEnd(w, c) ==
  LET w1 == IF w.heartbeatRef # 0 THEN clearHeartbeat(w) ELSE w
      webSuccess == w.calls[c].spoke \/ w.calls[c].n = 0
      ok == webSuccess /\ ~w1.isCancelledRef
      w2 == IF ok THEN w1 ELSE [w1 EXCEPT !.activeEngine = "none"]
      w3 == IF ~w2.isCancelledRef THEN [w2 EXCEPT !.isSpeaking = FALSE] ELSE w2
      w4 == [w3 EXCEPT !.utteranceRef = NoUtterance]
  IN nativeReturn(w4, c,
       IF ok THEN [success |-> TRUE, engine |-> "web", error |-> ""]
       ELSE [success |-> FALSE, engine |-> "none",
             error |-> "Voice not available on this device"])

\* speakChunkWeb settles: clearTimeout(safetyTimeout), clearInterval(resumeWatchdog)
clearChunkTimers(w, c) ==
  [w EXCEPT !.calls[c].wdOn = FALSE, !.calls[c].ticked = FALSE,
            !.calls[c].silent = -1, !.calls[c].early = FALSE, !.calls[c].ns = FALSE,
            !.synthCancelled = {u \in @ : u.c # c}]

Failed(result) == ~result.completed \/ result.error # ""

RECURSIVE chunkLoop(_, _, _)
RECURSIVE speakChunkWeb(_, _, _, _)
RECURSIVE chunkSettled(_, _, _)

\* A loop head that does not look at the cancellation flag.
chunkLoopNoCancelCheck(w, c, i) ==
  IF i >= w.calls[c].n
  THEN webSpeechEnd(w, c)
  ELSE speakChunkWeb([w EXCEPT !.currentChunkIndexRef = i], c, i, 1)

\* One turn of the for loop of tryWebSpeech, from its head, for chunk index i.
chunkLoop(w, c, i) ==
  IF i >= w.calls[c].n \/ w.isCancelledRef
  THEN webSpeechEnd(w, c)
  ELSE speakChunkWeb([w EXCEPT !.currentChunkIndexRef = i], c, i, 1)

\* speakChunkWeb up to speechSynthesis.speak: the utterance, the safety timeout,
\* the watchdog interval, the 2 s never-started check.
speakChunkWeb(w, c, i, attempt) ==
  LET w1 == [w EXCEPT !.calls[c].pc = "chunk", !.calls[c].i = i,
                      !.calls[c].attempt = attempt,
                      !.calls[c].delay = IF attempt = 1 THEN 0 ELSE @,
                      !.calls[c].stoppedEarly = FALSE]
      u == CurrentUtterance(w1, c)
  IN IF w.isCancelledRef
     THEN chunkSettled(w1, c, [completed |-> FALSE, stoppedEarly |-> FALSE, error |-> ""])
     ELSE LET w2 == [w1 EXCEPT !.utteranceRef = u, !.calls[c].wdOn = TRUE,
                               !.calls[c].ns = TRUE]
          IN CASE engineMode = "ok" -> synthSpeak(w2, u)
               [] engineMode = "dead" -> w2
               [] OTHER -> chunkSettled(w2, c, [completed |-> FALSE, stoppedEarly |-> FALSE, error |-> "exception"])

\* A continuation that never gives up on the run.
chunkSettledNoLimit(w, c, result) ==
  LET w0 == [clearChunkTimers(w, c) EXCEPT
               !.calls[c].pc = "running",
               !.calls[c].streak = IF w.calls[c].attempt # 1 THEN @
                                   ELSE IF Failed(result) THEN @ + 1 ELSE 0]
      call == w0.calls[c]
      good == [w0 EXCEPT !.calls[c].fails = 0, !.calls[c].spoke = TRUE]
  IN CASE call.attempt = 1 ->
            IF Failed(result)
            THEN [synthCancel(w0) EXCEPT
                    !.calls[c].fails = call.fails + 1,
                    !.calls[c].pc = "backoff",
                    !.calls[c].stoppedEarly = result.stoppedEarly,
                    !.calls[c].delay = BackoffBaseMs + (call.fails + 1) * BackoffStepMs]
            ELSE chunkLoop(good, c, call.i + 1)
       [] call.attempt = 2 ->
            IF Failed(result)
            THEN [synthCancel(w0) EXCEPT !.calls[c].pc = "backoff",
                                         !.calls[c].stoppedEarly = result.stoppedEarly,
                                         !.calls[c].delay = FinalBackoffMs]
            ELSE chunkLoop(good, c, call.i + 1)
       [] OTHER ->
            chunkLoop(IF Failed(result) THEN w0 ELSE good, c, call.i + 1)

\* The continuation of tryWebSpeech after "await speakChunkWeb" gave result.
chunkSettled(w, c, result) ==
  LET w0 == [clearChunkTimers(w, c) EXCEPT
               !.calls[c].pc = "running",
               !.calls[c].streak = IF w.calls[c].attempt # 1 THEN @
                                   ELSE IF Failed(result) THEN @ + 1 ELSE 0]
      call == w0.calls[c]
      good == [w0 EXCEPT !.calls[c].fails = 0, !.calls[c].spoke = TRUE]
  IN CASE call.attempt = 1 ->
            IF Failed(result)
            THEN IF call.fails + 1 >= MAX_CONSECUTIVE_FAILURES
                 THEN webSpeechEnd([w0 EXCEPT !.calls[c].fails = call.fails + 1], c)
                 ELSE [synthCancel(w0) EXCEPT
                         !.calls[c].fails = call.fails + 1,
                         !.calls[c].pc = "backoff",
                         !.calls[c].stoppedEarly = result.stoppedEarly,
                         !.calls[c].delay = BackoffBaseMs + (call.fails + 1) * BackoffStepMs]
            ELSE chunkLoop(good, c, call.i + 1)
       [] call.attempt = 2 ->
            IF Failed(result)
            THEN [synthCancel(w0) EXCEPT !.calls[c].pc = "backoff",
                                         !.calls[c].stoppedEarly = result.stoppedEarly,
                                         !.calls[c].delay = FinalBackoffMs]
            ELSE chunkLoop(good, c, call.i + 1)
       [] OTHER ->
            chunkLoop(IF Failed(result) THEN w0 ELSE good, c, call.i + 1)

\* A retry that starts over from the first chunk.
retryChunkFromStart(w, c) ==
  IF w.isCancelledRef THEN chunkLoop(w, c, w.calls[c].i + 1)
  ELSE speakChunkWeb(w, c, 0, 1)

\* The retry of tryWebSpeech after its backoff delay (300 + 200 * failures ms
\* before the first retry, 800 ms before the final one).
retryChunk(w, c) ==
  IF w.isCancelledRef THEN chunkLoop(w, c, w.calls[c].i + 1)
  ELSE speakChunkWeb(w, c, w.calls[c].i, w.calls[c].attempt + 1)

\* tryWebSpeech from the end of its 200 ms engine reset to the first chunk.
startChunks(w, c) ==
  LET w1 == [w EXCEPT !.calls[c].n = Len(ChunksOf[w.calls[c].text]),
                      !.calls[c].behind = 0,
                      !.chunksRef = w.calls[c].text,
                      !.currentChunkIndexRef = 0,
                      !.activeEngine = "web"]
      w2 == IF isMobile THEN w1
            ELSE [w1 EXCEPT !.heartbeatRef = c, !.heartbeats = @ \union {c}]
  IN chunkLoop(w2, c, 0)

\* useNativeTTS.speak after its 150 ms settle delay, into tryWebSpeech up to
\* the 200 ms engine reset.
afterSettleDelay(w, c) ==
  LET w1 == [w EXCEPT !.isSpeaking = TRUE]
      waiting == {d \in CallIds : d > c /\ w.calls[d].pc = "settle"}
  IN [synthCancel(w1) EXCEPT !.calls[c].pc = "reset",
                             !.calls[c].behind = IF waiting = {} THEN 0 ELSE MaxOf(waiting)]

\* useNativeTTS.speak up to its first await.
nativeSpeak(w, c) ==
  IF ~isSupported
  THEN nativeReturn(w, c, [success |-> FALSE, engine |-> "none",
                           error |-> "TTS not supported on this device"])
  ELSE IF CleanOf[w.calls[c].text] = <<>>
       THEN nativeReturn(w, c, [success |-> TRUE, engine |-> "none", error |-> ""])
       ELSE [nativeStop(w) EXCEPT !.isCancelledRef = FALSE, !.calls[c].pc = "settle"]

(***************************************************************************)
(* useSmartTTS                                                             *)
(***************************************************************************)
CacheCapacity == 50

\* The key of clientAudioCache: voiceId and the first 200 characters of the
\* text.  The voice is the default one and the sample texts differ within
\* their first 200 characters, so the text identifies the key.
CacheKey(t) == t

InCache(cache, k) == \E n \in 1..Len(cache) : cache[n] = k

\* An insert that never evicts.
cachePutNoEviction(cache, k) == IF InCache(cache, k) THEN cache ELSE Append(cache, k)

\* if (clientAudioCache.size > 50) delete the first key; then set(cacheKey, ...)
cachePut(cache, k) ==
  LET trimmed == IF Len(cache) > CacheCapacity THEN Tail(cache) ELSE cache
  IN IF InCache(trimmed, k) THEN trimmed ELSE Append(trimmed, k)

\* cleanupAudio: pause(), src = EMPTY, load() on the current element, then
\* audioRef.current = null (aborting the AbortController reaches no request).
\* An element reset while its play() promise is pending has that promise
\* rejected, a playing one reports the pause (useSpeechifyTTS listens to it),
\* and loading the empty src reports an error on the element.
cleanupAudio(w) ==
  IF w.audioRef = 0 THEN w
  ELSE [w EXCEPT !.audio[w.audioRef] =
                   CASE @ = "starting" -> "resetStarting"
                     [] @ = "playing" /\ hook = "speechify" -> "resetPlaying"
                     [] OTHER -> "reset",
                 !.audioRef = 0]

\* useSmartTTS.stop
smartStop(w) ==
  LET w1 == nativeStop(cleanupAudio(w))
      w2 == IF isSupported THEN synthCancel(w1) ELSE w1
  IN [w2 EXCEPT !.state.isSpeaking = FALSE, !.state.isLoading = FALSE,
                !.state.activeEngine = "none"]

\* useSmartTTS.speakWeb up to "await nativeTTS.speak"
speakWeb(w, c) ==
  LET w1 == cleanupAudio(w)
  IN nativeSpeak([w1 EXCEPT !.state.isSpeaking = TRUE, !.state.isLoading = FALSE], c)

\* speakPremium from the audio data to audio.play()
playPremium(w, c) ==
  LET w1 == nativeStop(w)
      w2 == IF isSupported THEN synthCancel(w1) ELSE w1
  IN [w2 EXCEPT !.audio[c] = "starting", !.audioRef = c, !.calls[c].pc = "premPlay"]

\* A speakPremium that asks the remote function without looking in the cache.
speakPremiumNoCache(w, c) ==
  LET w1 == nativeStop(w)
      w2 == IF isSupported THEN synthCancel(w1) ELSE w1
  IN [w2 EXCEPT !.calls[c].pc = "premWait"]

\* speakPremium up to "await supabase.functions.invoke" (or, on a cache hit,
\* up to audio.play())
speakPremium(w, c) ==
  LET w1 == nativeStop(w)
      w2 == IF isSupported THEN synthCancel(w1) ELSE w1
  IN IF InCache(w2.clientAudioCache, CacheKey(w2.calls[c].text))
     THEN playPremium(w2, c)
     ELSE [w2 EXCEPT !.calls[c].pc = "premWait"]

\* A speak that gives up when premium fails.
premiumFailedNoFallback(w, c) ==
  Finished([w EXCEPT !.calls[c].prem = "failed",
                     !.state.isLoading = FALSE, !.state.isSpeaking = FALSE,
                     !.state.error = "Voice playback failed. Try again!",
                     !.state.activeEngine = "none"], c, NoResult)

\* A speak that goes on to speakWeb after premium succeeded.
premiumDoneThenWeb(w, c) == speakWeb([w EXCEPT !.calls[c].prem = "ok"], c)

\* speakPremium returned false: useSmartTTS.speak falls back to speakWeb.
premiumFailed(w, c) == speakWeb([w EXCEPT !.calls[c].prem = "failed"], c)

\* speakPremium returned true: useSmartTTS.speak returns.
premiumDone(w, c) == Finished([w EXCEPT !.calls[c].prem = "ok"], c, NoResult)

\* A gate that does not compare the remaining quota with the text length.
tryPremiumNoQuota(usage, t) ==
  /\ studentId # "none"
  /\ usage.plan = "pro"
  /\ usage.canUsePremium

\* if (studentId && usageInfo?.plan === 'pro' && usageInfo.canUsePremium
\*     && usageInfo.ttsRemaining >= textLength) tryPremium = true
tryPremium(usage, t) ==
  /\ studentId # "none"
  /\ usage.plan = "pro"
  /\ usage.canUsePremium
  /\ usage.ttsRemaining >= TextLength(t)

\* useSmartTTS.speak up to its first await
smartSpeak(w, c) ==
  IF IsBlank(w.calls[c].text) THEN Finished(w, c, NoResult)
  ELSE LET w1 == smartStop(w)
           w2 == [w1 EXCEPT !.state.isLoading = TRUE, !.state.error = "",
                            !.state.activeEngine = "none"]
       IN IF tryPremium(w.usageInfo, w.calls[c].text)
          THEN speakPremium([w2 EXCEPT !.calls[c].prem = "tried"], c)
          ELSE speakWeb(w2, c)

\* The usage snapshots fetchUsageInfo can store: the default after an error,
\* and max(0, limit - used) with canUsePremium = pro, active, unexpired, used < limit.
LowQuotaPro ==
  [plan |-> "pro", used |-> DefaultTtsLimit - LowQuota, limit |-> DefaultTtsLimit,
   live |-> TRUE]

Subscriptions ==
  {[plan |-> "basic", used |-> 0, limit |-> DefaultTtsLimit, live |-> TRUE],
   [plan |-> "pro", used |-> 0, limit |-> DefaultTtsLimit, live |-> TRUE],
   LowQuotaPro,
   [plan |-> "pro", used |-> 0, limit |-> DefaultTtsLimit, live |-> FALSE]}

usageOf(sub) ==
  [plan |-> sub.plan,
   ttsRemaining |-> IF sub.limit - sub.used > 0 THEN sub.limit - sub.used ELSE 0,
   canUsePremium |-> sub.plan = "pro" /\ sub.live /\ sub.used < sub.limit]

\* usageInfo: { ...prev.usageInfo, ...data.usageInfo } with an exhausted quota
exhausted(usage) == [usage EXCEPT !.ttsRemaining = 0, !.canUsePremium = FALSE]

(***************************************************************************)
(* useSpeechifyTTS                                                         *)
(***************************************************************************)
\* useSpeechifyTTS.stop
speechifyStop(w) ==
  [cleanupAudio(w) EXCEPT !.state.isSpeaking = FALSE, !.state.isLoading = FALSE]

\* useSpeechifyTTS.speak from the audio data to "await audio.play()"
speechifyPlay(w, c) ==
  [w EXCEPT !.audio[c] = "starting", !.audioRef = c, !.calls[c].pc = "premPlay"]

\* The catch block of useSpeechifyTTS.speak
speechifyCatch(w, c, msg) ==
  Finished([w EXCEPT !.state.isLoading = FALSE, !.state.isSpeaking = FALSE,
                     !.state.error = msg,
                     !.calls[c].prem = "failed"], c, NoResult)

\* useSpeechifyTTS.speak up to its first await
speechifySpeak(w, c) ==
  IF IsBlank(w.calls[c].text) THEN Finished(w, c, NoResult)
  ELSE LET w1 == speechifyStop(w)
           w2 == [w1 EXCEPT !.state.isLoading = TRUE, !.state.error = "",
                            !.calls[c].prem = "tried"]
       IN IF InCache(w2.clientAudioCache, CacheKey(w2.calls[c].text))
          THEN speechifyPlay(w2, c)
          ELSE [w2 EXCEPT !.calls[c].pc = "premWait"]

(***************************************************************************)
(* The Android native bridge: speakWithAndroidNative and                   *)
(* stopAndroidNativeTTS, exported functions that share the two callbacks   *)
(* registered on window.                                                   *)
(***************************************************************************)
MaxNativeCalls == 2

NativeCallIds == 1..MaxNativeCalls

\* Longer than 30000 / 80 characters, so that its safety timeout is scaled.
LongNativeLen == 376

NativeTexts ==
  [blank |-> <<" ">>,
   short |-> <<"h", "i">>,
   long  |-> Sentence(LongNativeLen)]

NativeTextIds == DOMAIN NativeTexts

\* Math.max(30000, cleanText.length * 80)
NativeSafetyMs == 30000

NativeMsPerChar == 80

sanitizeForTTS(text) ==
  Trim(ReplaceRuns(ReplaceRuns(
    StripHeadingsFrom(StripPair(StripPair(StripPair(RemoveEmoji(text),
        <<"*", "*">>), <<"*">>), <<"BACKTICK">>), 1),
    LineTerminators, <<".", " ">>), Whitespace, <<" ">>))

NativeCleanOf == [t \in NativeTextIds |-> sanitizeForTTS(NativeTexts[t])]

NoNativeResult == [success |-> FALSE, usedNative |-> FALSE, error |-> "unset"]

NativeIdle == [pc |-> "idle", res |-> NoNativeResult, timer |-> FALSE, timeout |-> 0]

\* No call of the bridge functions has been made.
BridgeIdle ==
  /\ onAndroidTTSDone = 0
  /\ onAndroidTTSError = 0
  /\ nativeCalls = [p \in NativeCallIds |-> NativeIdle]
  /\ bridgeQueue = {}

\* The state the bridge functions work on, as one value.
Bridge ==
  [onAndroidTTSDone |-> onAndroidTTSDone, onAndroidTTSError |-> onAndroidTTSError,
   nativeCalls |-> nativeCalls, bridgeQueue |-> bridgeQueue]

\* window.AndroidTTS && typeof window.AndroidTTS.speak === "function"
isAndroidNativeTTSAvailable == androidTTS = "present"

\* resolve(res) of the promise of call p: only the first resolution counts
resolveNative(b, p, res) ==
  IF b.nativeCalls[p].pc = "pending"
  THEN [b EXCEPT !.nativeCalls[p].pc = "resolved", !.nativeCalls[p].res = res]
  ELSE b

\* Both window callbacks are set to undefined.
clearCallbacks(b) == [b EXCEPT !.onAndroidTTSDone = 0, !.onAndroidTTSError = 0]

\* window.onAndroidTTSDone as call p registered it
androidTTSDone(b, p) ==
  resolveNative(clearCallbacks(b), p,
                [success |-> TRUE, usedNative |-> TRUE, error |-> ""])

\* window.onAndroidTTSError as call p registered it
androidTTSError(b, p, error) ==
  resolveNative(clearCallbacks(b), p,
                [success |-> FALSE, usedNative |-> TRUE, error |-> error])

\* speakWithAndroidNative(text) as call p; speakThrows: window.AndroidTTS.speak throws
speakWithAndroidNative(b, p, t, speakThrows) ==
  LET b0 == [b EXCEPT !.nativeCalls[p].pc = "pending"]
      cleanText == NativeCleanOf[t]
  IN IF ~isAndroidNativeTTSAvailable
     THEN resolveNative(b0, p, [success |-> FALSE, usedNative |-> FALSE,
                                error |-> "Native TTS not available"])
     ELSE IF cleanText = <<>>
          THEN resolveNative(b0, p, [success |-> TRUE, usedNative |-> TRUE, error |-> ""])
          ELSE LET b1 == [b0 EXCEPT !.onAndroidTTSDone = p, !.onAndroidTTSError = p]
               IN IF speakThrows
                  THEN resolveNative(b1, p, [success |-> FALSE, usedNative |-> TRUE,
                                             error |-> "exception"])
                  ELSE [b1 EXCEPT
                          !.bridgeQueue = @ \union {[p |-> p, locale |-> detectLanguage(cleanText)]},
                          !.nativeCalls[p].timer = TRUE,
                          !.nativeCalls[p].timeout =
                             MaxOf({NativeSafetyMs, JsLen(cleanText) * NativeMsPerChar})]

\* stopAndroidNativeTTS(); stopThrows: window.AndroidTTS.stop throws.  The
\* bridge may still answer what it was asked to speak.
stopAndroidNativeTTS(b, stopThrows) ==
  IF isAndroidNativeTTSAvailable /\ stopThrows
  THEN b
  ELSE clearCallbacks(b)

\* The safety timer of call p: if (window.onAndroidTTSDone) { clear both; resolve }
nativeSafetyTimeout(b, p) ==
  LET b1 == [b EXCEPT !.nativeCalls[p].timer = FALSE]
  IN IF b.onAndroidTTSDone # 0
     THEN resolveNative(clearCallbacks(b1), p,
                        [success |-> TRUE, usedNative |-> TRUE, error |-> ""])
     ELSE b1

(***************************************************************************)
(* One speakChunkWeb promise in full: the settled flag, silentSince, the   *)
(* safety timer, the watchdog interval and the 2 s check as they are in    *)
(* its closure, with the clock the watchdog reads.                         *)
(***************************************************************************)
\* Math.max(60000, text.length * 300)
SafetyTimeoutMs == 60000

SafetyMsPerChar == 300

NoSegmentResult == [completed |-> FALSE, stoppedEarly |-> FALSE, error |-> "unset"]

Completed == [completed |-> TRUE, stoppedEarly |-> FALSE, error |-> ""]

NeverStarted == [completed |-> FALSE, stoppedEarly |-> TRUE, error |-> "never-started"]

SegmentError(error) == [completed |-> FALSE, stoppedEarly |-> FALSE, error |-> error]

\* No speakChunkWeb call is followed.  resolves counts the calls of resolve,
\* result is what the promise resolved with.  utterance is where the engine
\* has the utterance: "none" (not submitted, or dropped by a dead engine),
\* "pending", "speaking", "stalled" (silent without an event), "cancelled"
\* (removed by cancel(), its event may still come) or "over".  event is the
\* callback that ran last (for onerror, the error), quiet the times of the polls that saw the engine
\* silent since the last poll that saw it busy.
IdleSegment ==
  [pc |-> "idle", settled |-> FALSE, resolves |-> 0, result |-> NoSegmentResult,
   safetyTimeout |-> FALSE, safetyDue |-> 0,
   resumeWatchdog |-> FALSE, tickDue |-> 0,
   startCheck |-> FALSE, startDue |-> 0,
   silentSince |-> 0, utterance |-> "none", event |-> "none", quiet |-> <<>>]

SegmentIdle ==
  /\ segment = IdleSegment
  /\ now = 1

\* resolve(result): the promise keeps the first value
resolveSegment(g, result) ==
  [g EXCEPT !.resolves = @ + 1,
            !.result = IF g.resolves = 0 THEN result ELSE @]

\* A settle without the settled flag.
settleUnguarded(g, result) ==
  resolveSegment([g EXCEPT !.settled = TRUE, !.safetyTimeout = FALSE,
                           !.resumeWatchdog = FALSE], result)

\* settle(result) of speakChunkWeb
settle(g, result) ==
  IF g.settled THEN g
  ELSE resolveSegment([g EXCEPT !.settled = TRUE, !.safetyTimeout = FALSE,
                                !.resumeWatchdog = FALSE], result)

\* The callback of the safety timeout.
safetyTimeout(g) == settle(g, Completed)

\* A watchdog that settles at the first silent poll.
resumeWatchdogNoWindow(g, cancelled, silent, t) ==
  IF g.settled \/ cancelled THEN [g EXCEPT !.resumeWatchdog = FALSE]
  ELSE IF silent THEN settle(g, Completed)
  ELSE [g EXCEPT !.silentSince = 0]

\* The callback of the watchdog interval, run at time t; silent:
\* !speechSynthesis.speaking && !speechSynthesis.pending
resumeWatchdog(g, cancelled, silent, t) ==
  IF g.settled \/ cancelled THEN [g EXCEPT !.resumeWatchdog = FALSE]
  ELSE IF silent
       THEN IF g.silentSince = 0 THEN [g EXCEPT !.silentSince = t]
            ELSE IF t - g.silentSince > SilenceWindowMs THEN settle(g, Completed)
            ELSE g
       ELSE [g EXCEPT !.silentSince = 0]

utteranceOnEnd(g) == settle(g, Completed)

utteranceOnError(g, error) ==
  IF error \in {"interrupted", "canceled"} THEN settle(g, Completed)
  ELSE settle(g, SegmentError(error))

\* The callback of the 2 s timer set after speechSynthesis.speak.
startedCheck(g, silent) ==
  IF ~g.settled /\ silent THEN settle(g, NeverStarted) ELSE g

\* speakChunkWeb(text, ...) called at time t with a text of length chars, up
\* to the end of the promise executor; speaks: speechSynthesis.speak returns.
speakSegment(g, cancelled, length, speaks, t) ==
  LET g0 == [g EXCEPT !.pc = "called"]
  IN IF cancelled
     THEN resolveSegment(g0, [completed |-> FALSE, stoppedEarly |-> FALSE, error |-> ""])
     ELSE LET g1 == [g0 EXCEPT
                       !.safetyTimeout = TRUE,
                       !.safetyDue = t + MaxOf({SafetyTimeoutMs, length * SafetyMsPerChar}),
                       !.silentSince = 0,
                       !.resumeWatchdog = TRUE,
                       !.tickDue = t + WatchdogPeriodMs]
          IN IF speaks
             THEN [g1 EXCEPT !.startCheck = TRUE, !.startDue = t + NeverStartedMs]
             ELSE settle(g1, SegmentError("exception"))

(***************************************************************************)
(* The mounted hook                                                        *)
(***************************************************************************)
\* stop() of the mounted hook
stop(w) ==
  CASE hook = "web" -> nativeStop(w)
    [] hook = "smart" -> smartStop(w)
    [] OTHER -> speechifyStop(w)

\* isSpeaking of the hook: useSmartTTS returns state.isSpeaking || nativeTTS.isSpeaking
ReportedSpeaking(w) ==
  CASE hook = "web" -> w.isSpeaking
    [] hook = "smart" -> w.state.isSpeaking \/ w.isSpeaking
    [] OTHER -> w.state.isSpeaking

\* activeEngine of the hook (useSpeechifyTTS has none)
ReportedEngine(w) ==
  CASE hook = "web" -> w.activeEngine
    [] OTHER -> w.state.activeEngine

(***************************************************************************)
(* Actions                                                                 *)
(***************************************************************************)
Commit(w) ==
  LET v == Effects(World, w) IN
  /\ calls' = v.calls
  /\ isCancelledRef' = v.isCancelledRef
  /\ heartbeatRef' = v.heartbeatRef
  /\ heartbeats' = v.heartbeats
  /\ chunksRef' = v.chunksRef
  /\ currentChunkIndexRef' = v.currentChunkIndexRef
  /\ utteranceRef' = v.utteranceRef
  /\ isSpeaking' = v.isSpeaking
  /\ activeEngine' = v.activeEngine
  /\ synthQueue' = v.synthQueue
  /\ synthSpeaking' = v.synthSpeaking
  /\ synthCancelled' = v.synthCancelled
  /\ state' = v.state
  /\ usageInfo' = v.usageInfo
  /\ audioRef' = v.audioRef
  /\ audio' = v.audio
  /\ clientAudioCache' = v.clientAudioCache
  /\ UNCHANGED env
  /\ UNCHANGED bridgeVars
  /\ UNCHANGED <<segment, now, keepAlive, siteVars>>
  /\ UNCHANGED <<probe, answer>>

\* The caller invokes speak({ text }) of the mounted hook.
Speak(c, t) ==
  /\ calls[c].pc = "idle"
  /\ \A d \in CallIds : d < c => calls[d].pc # "idle"
  /\ LET w == [World EXCEPT !.calls[c].text = t]
     IN Commit(CASE hook = "web" -> nativeSpeak(w, c)
                 [] hook = "smart" -> smartSpeak(w, c)
                 [] OTHER -> speechifySpeak(w, c))

\* The caller invokes stop() of the mounted hook.
Stop ==
  /\ hook \in {"web", "smart", "speechify"}
  /\ Commit(stop(World))

\* The same, with the calls it interrupts marked as stopped by the caller.
UserStop ==
  /\ hook \in {"web", "smart"}
  /\ Commit(stop([World EXCEPT
                    !.calls = [c \in CallIds |->
                                 IF InFlight(c) THEN [@[c] EXCEPT !.stopped = TRUE]
                                 ELSE @[c]]]))

\* The same, by a caller that awaits each speak() before the next one.
SpeakAwaited(c, t) ==
  /\ \A d \in CallIds : ~InFlight(d)
  /\ Speak(c, t)

\* fetchUsageInfo stores the subscription it fetched.
FetchUsageInfo(sub) ==
  /\ hook = "smart"
  /\ studentId # "none"
  /\ Commit([World EXCEPT !.usageInfo = usageOf(sub)])

\* The same, as the reply to a refreshUsageInfo() the caller made between two
\* speak() calls.
UsageRefreshed(sub) ==
  /\ \A d \in CallIds : ~InFlight(d)
  /\ FetchUsageInfo(sub)

\* The 150 ms timer of useNativeTTS.speak fires.  Timers of equal delay fire
\* in the order they were set.
SettleDelayDone(c) ==
  /\ calls[c].pc = "settle"
  /\ \A d \in CallIds : d < c => calls[d].pc # "settle"
  /\ Commit(afterSettleDelay(World, c))

\* The 200 ms timer of tryWebSpeech fires: after the 200 ms timers set before
\* it, and after the 150 ms timers that were already running when it was set
\* (calls[c].behind is the last call that set one).
EngineResetDone(c) ==
  /\ calls[c].pc = "reset"
  /\ \A d \in CallIds : d < c => calls[d].pc # "reset"
  /\ calls[c].behind # 0 => calls[calls[c].behind].pc # "settle"
  /\ Commit(startChunks(World, c))

\* A backoff timer of tryWebSpeech fires.
BackoffDone(c) ==
  /\ calls[c].pc = "backoff"
  /\ Commit(retryChunk(World, c))

\* The engine starts to speak the utterance at the head of its queue.
SynthStart ==
  /\ synthQueue # <<>>
  /\ ~synthSpeaking
  /\ Commit([World EXCEPT !.synthSpeaking = TRUE])

\* The utterance at the head of the queue leaves it and reports result: onend
\* (completed) or onerror with a real error.
synthReport(w, result) ==
  LET u == Head(w.synthQueue)
      w1 == [w EXCEPT !.synthQueue = Tail(@), !.synthSpeaking = FALSE]
  IN IF Unsettled(w, u) THEN chunkSettled(w1, u.c, result) ELSE w1

SynthEnd ==
  /\ synthQueue # <<>>
  /\ synthSpeaking
  /\ Commit(synthReport(World, [completed |-> TRUE, stoppedEarly |-> FALSE, error |-> ""]))

SynthError ==
  /\ synthQueue # <<>>
  /\ Commit(synthReport(World, [completed |-> FALSE, stoppedEarly |-> FALSE, error |-> "synthesis-failed"]))

\* The engine reports an utterance removed by cancel(): onerror with
\* interrupted / canceled, or onend; speakChunkWeb settles it as completed.
SynthCancelEvent(u) ==
  /\ u \in synthCancelled
  /\ Commit(chunkSettled([World EXCEPT !.synthCancelled = @ \ {u}], u.c,
                         [completed |-> TRUE, stoppedEarly |-> FALSE, error |-> ""]))

\* Timing of one utterance.  The watchdog ticks every 400 ms and the
\* never-started check runs once, 2000 ms after speechSynthesis.speak.  Time is
\* not a variable: a silence window is kept as the number of ticks since
\* silentSince was set, and the order of the two timers follows from their
\* periods.  A window closes at the first tick more than 1500 ms after the
\* tick that opened it.
WindowTicks == (SilenceWindowMs \div WatchdogPeriodMs) + 1

\* A window the first tick opened closes at tick 1 + WindowTicks.  When that
\* tick is due no later than the 2 s check, the two timers are due together
\* and either may run first; every window opened later closes after the check.
ClosesByCheck == (1 + WindowTicks) * WatchdogPeriodMs <= NeverStartedMs

\* The tick that would close the window of call c is due before the 2 s check.
WindowOutrunsCheck(c) == calls[c].early /\ ClosesByCheck

\* The 400 ms watchdog interval of speakChunkWeb ticks.
WatchdogTick(c) ==
  /\ calls[c].pc = "chunk"
  /\ calls[c].wdOn
  /\ LET closing == calls[c].silent >= 0 /\ calls[c].silent + 1 >= WindowTicks
         w == [World EXCEPT !.calls[c].ticked = TRUE]
     IN /\ (calls[c].ns /\ closing /\ EngineSilent(World) /\ ~isCancelledRef)
             => WindowOutrunsCheck(c)
        /\ Commit(
             IF isCancelledRef THEN [w EXCEPT !.calls[c].wdOn = FALSE]
             ELSE IF EngineSilent(World)
                  THEN IF calls[c].silent = -1
                       THEN [w EXCEPT !.calls[c].silent = 0,
                                      !.calls[c].early = ~calls[c].ticked]
                       ELSE IF closing
                            THEN chunkSettled(w, c, [completed |-> TRUE, stoppedEarly |-> FALSE, error |-> ""])
                            ELSE [w EXCEPT !.calls[c].silent = @ + 1]
                  ELSE [w EXCEPT !.calls[c].silent = -1, !.calls[c].early = FALSE])

\* The 2 s timer of speakChunkWeb fires: after the first tick, and after the
\* ticks of a window that closes by then.
NeverStartedCheck(c) ==
  /\ calls[c].pc = "chunk"
  /\ calls[c].ns
  /\ calls[c].wdOn => calls[c].ticked
  /\ (calls[c].wdOn /\ WindowOutrunsCheck(c)) => calls[c].silent + 1 >= WindowTicks
  /\ LET w == [World EXCEPT !.calls[c].ns = FALSE]
     IN Commit(IF EngineSilent(World)
               THEN chunkSettled(w, c, [completed |-> FALSE, stoppedEarly |-> TRUE, error |-> "never-started"])
               ELSE w)

\* The safety timeout of speakChunkWeb (at least 60 s) fires.
SafetyTimeout(c) ==
  /\ calls[c].pc = "chunk"
  /\ ~calls[c].ns
  /\ Commit(chunkSettled(World, c, [completed |-> TRUE, stoppedEarly |-> FALSE, error |-> ""]))

\* What the text-to-speech function can answer.  The answer may carry a usage
\* update (here: the quota is now exhausted).
ResponseKinds == {"audio", "fallback", "error"}

\* useSmartTTS.speakPremium after "await supabase.functions.invoke"
premiumResponse(w, c, kind, usageUpdate) ==
  LET w1 == IF usageUpdate /\ kind # "error"
            THEN [w EXCEPT !.usageInfo = exhausted(@)] ELSE w
  IN CASE kind = "audio" ->
            playPremium([w1 EXCEPT !.clientAudioCache =
                                     cachePut(@, CacheKey(w.calls[c].text))], c)
       [] OTHER -> premiumFailed(w1, c)

\* useSpeechifyTTS.speak after "await supabase.functions.invoke"
speechifyResponse(w, c, kind) ==
  IF kind = "audio"
  THEN speechifyPlay([w EXCEPT !.clientAudioCache =
                                 cachePut(@, CacheKey(w.calls[c].text))], c)
  ELSE speechifyCatch(w, c, "TTS request failed")

\* The answer of the remote text-to-speech function arrives.
RemoteResponse(c, kind, usageUpdate) ==
  /\ calls[c].pc = "premWait"
  /\ hook = "speechify" => ~usageUpdate
  /\ Commit(IF hook = "smart" THEN premiumResponse(World, c, kind, usageUpdate)
            ELSE speechifyResponse(World, c, kind))

\* The promise speakPremium returned resolves with ok (only its first
\* resolution counts).
premiumResolve(w, c, ok) ==
  IF w.calls[c].pc # "premPlay" THEN w
  ELSE IF ok THEN premiumDone(w, c) ELSE premiumFailed(w, c)

\* audio.onplay; in useSpeechifyTTS "await audio.play()" also returns.
AudioPlay(c) ==
  /\ audio[c] = "starting"
  /\ LET w == [World EXCEPT !.audio[c] = "playing",
                            !.state.isSpeaking = TRUE, !.state.isLoading = FALSE]
     IN Commit(IF hook = "smart" THEN [w EXCEPT !.state.activeEngine = "premium"]
               ELSE IF w.calls[c].pc = "premPlay"
                    THEN Finished([w EXCEPT !.calls[c].prem = "ok"], c, NoResult)
                    ELSE w)

\* audio.play() rejects: playback was not allowed, or the element was reset
\* before it began.
AudioPlayRejected(c) ==
  /\ audio[c] \in {"starting", "resetStarting"}
  /\ LET w == [World EXCEPT !.audio[c] = IF @ = "starting" THEN "closed" ELSE "reset",
                            !.audioRef = IF audio[c] = "starting" /\ @ = c THEN 0 ELSE @]
     IN Commit(IF hook = "smart" THEN premiumResolve(w, c, FALSE)
               ELSE IF w.calls[c].pc = "premPlay"
                    THEN speechifyCatch(w, c, "TTS failed")
                    ELSE w)

\* audio.onended
AudioEnded(c) ==
  /\ audio[c] = "playing"
  /\ LET w == [World EXCEPT !.audio[c] = "closed", !.state.isSpeaking = FALSE]
     IN Commit(IF hook = "smart"
               THEN premiumResolve(cleanupAudio([w EXCEPT !.state.activeEngine = "none"]),
                                   c, TRUE)
               ELSE cleanupAudio(w))

\* audio.onerror: a playback error, or the error of loading the empty src
\* that cleanupAudio left on the element.
AudioError(c) ==
  /\ audio[c] \in {"starting", "playing", "reset"}
  /\ LET w == [World EXCEPT !.audio[c] = "closed", !.state.isSpeaking = FALSE,
                            !.state.isLoading = FALSE]
     IN Commit(IF hook = "smart"
               THEN premiumResolve(cleanupAudio([w EXCEPT !.state.activeEngine = "none"]),
                                   c, FALSE)
               ELSE LET w1 == cleanupAudio([w EXCEPT !.state.error = "Audio playback failed"])
                    IN IF w1.calls[c].pc = "premPlay"
                       THEN speechifyCatch(w1, c, "TTS failed")
                       ELSE w1)

\* audio.onpause of useSpeechifyTTS, for an element that was reset while playing.
AudioPaused(c) ==
  /\ audio[c] = "resetPlaying"
  /\ Commit([World EXCEPT !.audio[c] = "reset", !.state.isSpeaking = FALSE])

(***************************************************************************)
(* Specification                                                           *)
(***************************************************************************)
InitialState ==
  [isSpeaking |-> FALSE, isLoading |-> FALSE, error |-> "", activeEngine |-> "none"]

Init ==
  /\ hook \in {"web", "smart", "speechify"}
  /\ isSupported \in BOOLEAN
  /\ isMobile \in BOOLEAN
  /\ engineMode \in {"ok", "dead", "throws"}
  /\ studentId \in {"none", "student"}
  \* the parts a hook does not read are held at one value
  /\ hook = "speechify" => isSupported /\ ~isMobile /\ engineMode = "ok"
  /\ hook # "smart" => studentId = "none"
  \* the mobile heartbeat is explored under the web hook
  /\ hook = "smart" => ~isMobile
  /\ ~isSupported => ~isMobile /\ engineMode = "ok"
  /\ calls = [c \in CallIds |-> IdleCall]
  /\ isCancelledRef = FALSE
  /\ heartbeatRef = 0
  /\ heartbeats = {}
  /\ chunksRef = "none"
  /\ currentChunkIndexRef = 0
  /\ utteranceRef = NoUtterance
  /\ isSpeaking = FALSE
  /\ activeEngine = "none"
  /\ synthQueue = <<>>
  /\ synthSpeaking = FALSE
  /\ synthCancelled = {}
  /\ state = InitialState
  /\ usageInfo = NoUsage
  /\ audioRef = 0
  /\ audio = [c \in CallIds |-> "none"]
  /\ clientAudioCache = <<>>
  /\ androidTTS = "absent"
  /\ BridgeIdle
  /\ SegmentIdle
  /\ keepAlive = NoPulse
  /\ SiteIdle
  /\ probe = NoProbe
  /\ answer = NoAnswer

\* What the timers, the speech engine, the remote function and the audio
\* elements do on their own.
Environment ==
  \/ \E c \in CallIds : SettleDelayDone(c)
  \/ \E c \in CallIds : EngineResetDone(c)
  \/ \E c \in CallIds : BackoffDone(c)
  \/ SynthStart
  \/ SynthEnd
  \/ \E u \in Utterances : SynthCancelEvent(u)
  \/ \E c \in CallIds : WatchdogTick(c)
  \/ \E c \in CallIds : NeverStartedCheck(c)
  \/ \E c \in CallIds : SafetyTimeout(c)
  \/ \E c \in CallIds, kind \in ResponseKinds, upd \in BOOLEAN : RemoteResponse(c, kind, upd)
  \/ \E c \in CallIds : AudioPlay(c)
  \/ \E c \in CallIds : AudioPlayRejected(c)
  \/ \E c \in CallIds : AudioEnded(c)
  \/ \E c \in CallIds : AudioError(c)
  \/ \E c \in CallIds : AudioPaused(c)

\* Every hook and engine behaviour, with a caller that awaits each speak()
\* and refreshes the usage between calls.
NextAwait ==
  \/ \E c \in CallIds, t \in CallTexts : SpeakAwaited(c, t)
  \/ Stop
  \/ \E sub \in Subscriptions : UsageRefreshed(sub)
  \/ SynthError
  \/ Environment

SpecAwait == Init /\ [][NextAwait]_vars

\* useNativeTTS and useSmartTTS on a device whose engine works and reports no
\* errors of its own, with a caller that awaits each speak() and may call
\* stop() at any time.
InitStop ==
  /\ hook \in {"web", "smart"}
  /\ isSupported = TRUE
  /\ engineMode = "ok"
  /\ Init

NextStop ==
  \/ \E c \in CallIds, t \in CallTexts : SpeakAwaited(c, t)
  \/ UserStop
  \/ \E sub \in Subscriptions : UsageRefreshed(sub)
  \/ \E c \in CallIds : SettleDelayDone(c)
  \/ \E c \in CallIds : EngineResetDone(c)
  \/ \E c \in CallIds : BackoffDone(c)
  \/ SynthStart
  \/ SynthEnd
  \/ \E u \in Utterances : SynthCancelEvent(u)
  \/ \E c \in CallIds : WatchdogTick(c)
  \/ \E c \in CallIds : NeverStartedCheck(c)
  \/ \E c \in CallIds : SafetyTimeout(c)
  \/ \E c \in CallIds, kind \in ResponseKinds, upd \in BOOLEAN : RemoteResponse(c, kind, upd)
  \/ \E c \in CallIds : AudioPlay(c)
  \/ \E c \in CallIds : AudioPlayRejected(c)
  \/ \E c \in CallIds : AudioEnded(c)
  \/ \E c \in CallIds : AudioError(c)

SpecStop == InitStop /\ [][NextStop]_vars

\* Calls that overlap: speak() may be invoked, with text that is spoken, while
\* earlier calls are in flight.  The engine is a working desktop engine that reports no errors of
\* its own, and the usage of a pro student with a low remaining quota has
\* been fetched (the state after Init and FetchUsageInfo(LowQuotaPro)).
InitOverlap ==
  /\ hook \in {"web", "smart", "speechify"}
  /\ isSupported = TRUE
  /\ isMobile = FALSE
  /\ engineMode = "ok"
  /\ studentId = IF hook = "smart" THEN "student" ELSE "none"
  /\ calls = [c \in CallIds |-> IdleCall]
  /\ isCancelledRef = FALSE
  /\ heartbeatRef = 0
  /\ heartbeats = {}
  /\ chunksRef = "none"
  /\ currentChunkIndexRef = 0
  /\ utteranceRef = NoUtterance
  /\ isSpeaking = FALSE
  /\ activeEngine = "none"
  /\ synthQueue = <<>>
  /\ synthSpeaking = FALSE
  /\ synthCancelled = {}
  /\ state = InitialState
  /\ usageInfo = IF hook = "smart" THEN usageOf(LowQuotaPro) ELSE NoUsage
  /\ audioRef = 0
  /\ audio = [c \in CallIds |-> "none"]
  /\ clientAudioCache = <<>>
  /\ androidTTS = "absent"
  /\ BridgeIdle
  /\ SegmentIdle
  /\ keepAlive = NoPulse
  /\ SiteIdle
  /\ probe = NoProbe
  /\ answer = NoAnswer

SpokenTexts == {t \in CallTexts : CleanOf[t] # <<>>}

NextOverlap ==
  \/ \E c \in CallIds, t \in SpokenTexts : Speak(c, t)
  \/ Stop
  \/ Environment

SpecOverlap == InitOverlap /\ [][NextOverlap]_vars

(***************************************************************************)
(* One speak() of useNativeTTS for the text of ManyChunks chunks, with     *)
(* every engine behaviour: the retries of tryWebSpeech over a run long     *)
(* enough to reach MAX_CONSECUTIVE_FAILURES.                               *)
(***************************************************************************)
InitRetry ==
  /\ hook = "web"
  /\ Init

\* The caller invokes speak() with the long text.
SpeakMany ==
  /\ hook = "web"
  /\ SpeakAwaited(1, "many")

NextRetry ==
  \/ SpeakMany
  \/ Stop
  \/ \E c \in CallIds : SettleDelayDone(c)
  \/ \E c \in CallIds : EngineResetDone(c)
  \/ \E c \in CallIds : BackoffDone(c)
  \/ SynthStart
  \/ SynthEnd
  \/ SynthError
  \/ \E u \in Utterances : SynthCancelEvent(u)
  \/ \E c \in CallIds : WatchdogTick(c)
  \/ \E c \in CallIds : NeverStartedCheck(c)
  \/ \E c \in CallIds : SafetyTimeout(c)

SpecRetry == InitRetry /\ [][NextRetry]_vars

(***************************************************************************)
(* The chunkers as functions of their arguments: every text of up to       *)
(* MaxTextLen characters over ChunkAlphabet, every maxLength up to         *)
(* MaxChunkLen.                                                            *)
(***************************************************************************)
ChunkAlphabet == {"a", "b", ".", ",", " "}

MaxTextLen == 6

MaxChunkLen == 4

ChunkTexts == UNION {[1..n -> ChunkAlphabet] : n \in 0..MaxTextLen}

\* The hooks are mounted and idle.
HooksIdle ==
  /\ isSupported = TRUE
  /\ isMobile = FALSE
  /\ engineMode = "ok"
  /\ studentId = "none"
  /\ calls = [c \in CallIds |-> IdleCall]
  /\ isCancelledRef = FALSE
  /\ heartbeatRef = 0
  /\ heartbeats = {}
  /\ chunksRef = "none"
  /\ currentChunkIndexRef = 0
  /\ utteranceRef = NoUtterance
  /\ isSpeaking = FALSE
  /\ activeEngine = "none"
  /\ synthQueue = <<>>
  /\ synthSpeaking = FALSE
  /\ synthCancelled = {}
  /\ state = InitialState
  /\ usageInfo = NoUsage
  /\ audioRef = 0
  /\ audio = [c \in CallIds |-> "none"]

hookVars == <<hook, isSupported, isMobile, engineMode, studentId, calls,
              isCancelledRef, heartbeatRef, heartbeats, chunksRef,
              currentChunkIndexRef, utteranceRef, isSpeaking, activeEngine,
              synthQueue, synthSpeaking, synthCancelled, state, usageInfo,
              audioRef, audio>>

InitChunker ==
  /\ hook = "web"
  /\ HooksIdle
  /\ clientAudioCache = <<>>
  /\ androidTTS = "absent"
  /\ BridgeIdle
  /\ SegmentIdle
  /\ keepAlive = NoPulse
  /\ SiteIdle
  /\ probe \in [fn : {"chunker"}, text : ChunkTexts, maxLength : 1..MaxChunkLen]
  /\ answer = NoAnswer

\* splitIntoChunks(text, maxLength) is called.
SplitIntoChunks ==
  /\ probe.fn = "chunker"
  /\ answer = NoAnswer
  /\ answer' = [fn |-> "splitIntoChunks",
                chunks |-> splitIntoChunks(probe.text, probe.maxLength)]
  /\ UNCHANGED <<hookVars, clientAudioCache, bridgeVars, segment, now, keepAlive, probe, siteVars>>

\* splitForNativeTTS(text, maxLength) is called.
SplitForNativeTTS ==
  /\ probe.fn = "chunker"
  /\ answer = NoAnswer
  /\ answer' = [fn |-> "splitForNativeTTS",
                chunks |-> splitForNativeTTS(probe.text, probe.maxLength)]
  /\ UNCHANGED <<hookVars, clientAudioCache, bridgeVars, segment, now, keepAlive, probe, siteVars>>

NextChunker == SplitIntoChunks \/ SplitForNativeTTS

SpecChunker == InitChunker /\ [][NextChunker]_vars

(***************************************************************************)
(* detectLanguage as a function of its argument: texts with h Devanagari   *)
(* characters, e Latin letters and n other characters, interleaved.        *)
(***************************************************************************)
MaxHindi == 4

MaxLatin == 10

MaxNeutral == 2

RECURSIVE MixedText(_, _, _)
MixedText(h, e, n) ==
  IF h + e + n = 0 THEN <<>>
  ELSE (IF h > 0 THEN <<IF h % 2 = 1 THEN "KA" ELSE "DANDA">> ELSE <<>>)
         \o (IF e > 0 THEN <<IF e % 2 = 1 THEN "a" ELSE "Z">> ELSE <<>>)
         \o (IF n > 0 THEN <<IF n % 2 = 1 THEN "1" ELSE " ">> ELSE <<>>)
         \o MixedText(IF h > 0 THEN h - 1 ELSE 0,
                      IF e > 0 THEN e - 1 ELSE 0,
                      IF n > 0 THEN n - 1 ELSE 0)

InitDetect ==
  /\ hook = "web"
  /\ HooksIdle
  /\ clientAudioCache = <<>>
  /\ androidTTS = "absent"
  /\ BridgeIdle
  /\ SegmentIdle
  /\ keepAlive = NoPulse
  /\ SiteIdle
  /\ probe \in [fn : {"detect"}, h : 0..MaxHindi, e : 0..MaxLatin, n : 0..MaxNeutral]
  /\ answer = NoAnswer

\* detectLanguage(text) is called.
DetectLanguage ==
  /\ probe.fn = "detect"
  /\ answer = NoAnswer
  /\ answer' = [fn |-> "detectLanguage",
                locale |-> detectLanguage(MixedText(probe.h, probe.e, probe.n))]
  /\ UNCHANGED <<hookVars, clientAudioCache, bridgeVars, segment, now, keepAlive, probe, siteVars>>

SpecDetect == InitDetect /\ [][DetectLanguage]_vars

(***************************************************************************)
(* The insert into clientAudioCache after a successful synthesis, for a    *)
(* long run of requests: keys are numbered in the order they first appear, *)
(* and a request may also repeat the key that was cached last.             *)
(***************************************************************************)
MaxKeys == 100

CacheKeys == 1..MaxKeys

InitCache ==
  /\ hook = "smart"
  /\ HooksIdle
  /\ clientAudioCache = <<>>
  /\ androidTTS = "absent"
  /\ BridgeIdle
  /\ SegmentIdle
  /\ keepAlive = NoPulse
  /\ SiteIdle
  /\ probe = NoProbe
  /\ answer = NoAnswer

\* A key no request has used yet.
FreshKey(cache) == IF cache = <<>> THEN 1 ELSE MaxOf(QueueSet(cache)) + 1

\* The audio of key k arrives and is cached (speakPremium and
\* useSpeechifyTTS.speak after a successful synthesis).
CacheInsert(k) ==
  /\ \/ k = FreshKey(clientAudioCache)
     \/ clientAudioCache # <<>> /\ k = clientAudioCache[Len(clientAudioCache)]
  /\ clientAudioCache' = cachePut(clientAudioCache, k)
  /\ UNCHANGED <<hookVars, bridgeVars, segment, now, keepAlive, probe, answer, siteVars>>

NextCache == \E k \in CacheKeys : CacheInsert(k)

SpecCache == InitCache /\ [][NextCache]_vars

(***************************************************************************)
(* Voice selection as a function of the voices: every list of up to        *)
(* MaxVoices sample voices for the availableVoices state and for what the  *)
(* engine lists, and every requested name.                                 *)
(***************************************************************************)
MaxVoices == 2

Lekha == <<"L", "e", "k", "h", "a">>

Heera == <<"H", "e", "e", "r", "a">>

Female == <<"F", "e", "m", "a", "l", "e">>

Zira == <<"Z", "i", "r", "a">>

SampleVoices ==
  {[name |-> Lekha,  lang |-> HiIN],
   [name |-> Lekha,  lang |-> <<"h", "i">>],
   [name |-> Zira,   lang |-> <<"h", "i", "_", "I", "N">>],
   [name |-> Heera,  lang |-> EnIN],
   [name |-> Female, lang |-> EnIN],
   [name |-> Zira,   lang |-> <<"e", "n", "-", "U", "S">>],
   [name |-> Zira,   lang |-> <<"f", "r", "-", "F", "R">>]}

VoiceLists == UNION {[1..n -> SampleVoices] : n \in 0..MaxVoices}

VoiceNames == {<<>>, Lekha, Heera, Zira, <<"N", "i", "l">>}

InitVoice ==
  /\ hook = "web"
  /\ HooksIdle
  /\ clientAudioCache = <<>>
  /\ androidTTS = "absent"
  /\ BridgeIdle
  /\ SegmentIdle
  /\ keepAlive = NoPulse
  /\ SiteIdle
  /\ probe \in [fn : {"voice"}, availableVoices : VoiceLists, voices : VoiceLists,
                voiceName : VoiceNames]
  /\ answer = NoAnswer

\* getBestVoice() is called.
GetBestVoice ==
  /\ probe.fn = "voice"
  /\ answer = NoAnswer
  /\ answer' = [fn |-> "getBestVoice",
                voice |-> getBestVoice(probe.availableVoices, probe.voices)]
  /\ UNCHANGED <<hookVars, clientAudioCache, bridgeVars, segment, now, keepAlive, probe, siteVars>>

\* tryWebSpeech picks the voice of its utterances.
SelectVoice ==
  /\ probe.fn = "voice"
  /\ answer = NoAnswer
  /\ answer' = [fn |-> "tryWebSpeech",
                voice |-> selectVoice(probe.availableVoices, probe.voices, probe.voiceName)]
  /\ UNCHANGED <<hookVars, clientAudioCache, bridgeVars, segment, now, keepAlive, probe, siteVars>>

NextVoice == GetBestVoice \/ SelectVoice

SpecVoice == InitVoice /\ [][NextVoice]_vars

(***************************************************************************)
(* The native bridge functions, called in any order, with a bridge that    *)
(* may throw from speak() and stop(), answer late, or never answer.        *)
(***************************************************************************)
CommitBridge(b) ==
  /\ onAndroidTTSDone' = b.onAndroidTTSDone
  /\ onAndroidTTSError' = b.onAndroidTTSError
  /\ nativeCalls' = b.nativeCalls
  /\ bridgeQueue' = b.bridgeQueue
  /\ UNCHANGED <<hookVars, clientAudioCache, androidTTS, segment, now, keepAlive, siteVars>>

InitBridge ==
  /\ hook = "web"
  /\ HooksIdle
  /\ clientAudioCache = <<>>
  /\ androidTTS \in {"absent", "present"}
  /\ BridgeIdle
  /\ SegmentIdle
  /\ keepAlive = NoPulse
  /\ SiteIdle
  /\ probe = NoProbe
  /\ answer = NoAnswer

\* The caller invokes speakWithAndroidNative(text).
SpeakWithAndroidNative(p, t, speakThrows) ==
  /\ nativeCalls[p].pc = "idle"
  /\ \A q \in NativeCallIds : q < p => nativeCalls[q].pc # "idle"
  /\ speakThrows => isAndroidNativeTTSAvailable
  /\ CommitBridge(speakWithAndroidNative(Bridge, p, t, speakThrows))
  /\ probe' = [fn |-> "speakWithAndroidNative", text |-> t]
  /\ answer' = [fn |-> "speakWithAndroidNative", promise |-> p]

\* The caller invokes stopAndroidNativeTTS(); again: the call before it was
\* stopAndroidNativeTTS() too.
StopAndroidNativeTTS(stopThrows) ==
  /\ stopThrows => isAndroidNativeTTSAvailable
  /\ CommitBridge(stopAndroidNativeTTS(Bridge, stopThrows))
  /\ probe' = [fn |-> "stopAndroidNativeTTS"]
  /\ answer' = [fn |-> "stopAndroidNativeTTS", threw |-> FALSE,
                again |-> probe.fn = "stopAndroidNativeTTS"]

\* The safety timer of call p fires: after the timers that were set before
\* it with a delay no longer than its own.
NativeSafetyTimeout(p) ==
  /\ nativeCalls[p].timer
  /\ \A q \in NativeCallIds :
       (q < p /\ nativeCalls[q].timer) => nativeCalls[q].timeout > nativeCalls[p].timeout
  /\ CommitBridge(nativeSafetyTimeout(Bridge, p))
  /\ UNCHANGED <<probe, answer>>

\* The bridge reports that it finished request r: it calls
\* window.onAndroidTTSDone(), whichever call registered it.
BridgeDone(r) ==
  /\ r \in bridgeQueue
  /\ LET b == [Bridge EXCEPT !.bridgeQueue = @ \ {r}]
     IN CommitBridge(IF onAndroidTTSDone = 0 THEN b
                     ELSE androidTTSDone(b, onAndroidTTSDone))
  /\ UNCHANGED <<probe, answer>>

\* The bridge reports an error for request r: window.onAndroidTTSError(error).
BridgeError(r) ==
  /\ r \in bridgeQueue
  /\ LET b == [Bridge EXCEPT !.bridgeQueue = @ \ {r}]
     IN CommitBridge(IF onAndroidTTSError = 0 THEN b
                     ELSE androidTTSError(b, onAndroidTTSError, "bridge-error"))
  /\ UNCHANGED <<probe, answer>>

BridgeRequests == [p : NativeCallIds, locale : {"hi-IN", "en-IN"}]

NextBridge ==
  \/ \E p \in NativeCallIds, t \in NativeTextIds, th \in BOOLEAN : SpeakWithAndroidNative(p, t, th)
  \/ \E th \in BOOLEAN : StopAndroidNativeTTS(th)
  \/ \E p \in NativeCallIds : NativeSafetyTimeout(p)
  \/ \E r \in BridgeRequests : BridgeDone(r)
  \/ \E r \in BridgeRequests : BridgeError(r)

SpecBridge == InitBridge /\ [][NextBridge]_vars

\* The same, with timers that fire.  The bridge is under no obligation.
SpecBridgeLive == SpecBridge /\ \A p \in NativeCallIds : WF_vars(NativeSafetyTimeout(p))

(***************************************************************************)
(* One speakChunkWeb promise with its timers, the clock and the engine.    *)
(* A timer fires at its due time or MaxLateMs after it, and never while an *)
(* armed timer is overdue by more than that; the watchdog interval is      *)
(* re-armed from its due time.                                             *)
(***************************************************************************)
MaxLateMs == 100

\* Longer than 60000 / 300 characters, so that its safety timeout is scaled.
LongSegmentLen == 201

SegmentLengths == {2, LongSegmentLen}

SegmentUtterance == [c |-> 1, i |-> 0, a |-> 1]

InitSegment ==
  /\ hook = "web"
  /\ isSupported = TRUE
  /\ isMobile = FALSE
  /\ engineMode \in {"ok", "dead", "throws"}
  /\ studentId = "none"
  /\ calls = [c \in CallIds |-> IdleCall]
  /\ isCancelledRef = FALSE
  /\ heartbeatRef = 0
  /\ heartbeats = {}
  /\ chunksRef = "none"
  /\ currentChunkIndexRef = 0
  /\ utteranceRef = NoUtterance
  /\ isSpeaking = FALSE
  /\ activeEngine = "none"
  /\ synthQueue = <<>>
  /\ synthSpeaking = FALSE
  /\ synthCancelled = {}
  /\ state = InitialState
  /\ usageInfo = NoUsage
  /\ audioRef = 0
  /\ audio = [c \in CallIds |-> "none"]
  /\ clientAudioCache = <<>>
  /\ androidTTS = "absent"
  /\ BridgeIdle
  /\ SegmentIdle
  /\ keepAlive = NoPulse
  /\ SiteIdle
  /\ probe \in [fn : {"segment"}, length : SegmentLengths]
  /\ answer = NoAnswer

segmentVars == <<isCancelledRef, utteranceRef, segment, now>>

segmentRest == <<hook, isSupported, isMobile, engineMode, studentId, calls,
                 heartbeatRef, heartbeats, chunksRef, currentChunkIndexRef,
                 isSpeaking, activeEngine, synthQueue, synthSpeaking, synthCancelled,
                 state, usageInfo, audioRef, audio, clientAudioCache, bridgeVars,
                 keepAlive, probe, answer, siteVars>>

\* !speechSynthesis.speaking && !speechSynthesis.pending
SegmentSilent == segment.utterance \notin {"pending", "speaking"}

\* The times at which the armed timers are due.
ArmedDues ==
  (IF segment.safetyTimeout THEN {segment.safetyDue} ELSE {})
    \union (IF segment.resumeWatchdog THEN {segment.tickDue} ELSE {})
    \union (IF segment.startCheck THEN {segment.startDue} ELSE {})

\* A timer that is due at due may fire at time t.
FiresAt(due, t) ==
  /\ t \in {due, due + MaxLateMs}
  /\ t >= now
  /\ \A d \in ArmedDues : t <= d + MaxLateMs

\* speakChunkWeb(text, ...) is called.
SpeakChunkWeb ==
  /\ segment.pc = "idle"
  /\ probe.fn = "segment"
  /\ LET g == speakSegment(segment, isCancelledRef, probe.length,
                           engineMode # "throws", now)
     IN segment' = [g EXCEPT
                      !.utterance = IF ~isCancelledRef /\ engineMode = "ok"
                                    THEN "pending" ELSE @,
                      !.event = IF isCancelledRef THEN "cancelled"
                                ELSE IF engineMode = "throws" THEN "exception" ELSE @]
  /\ utteranceRef' = IF isCancelledRef THEN utteranceRef ELSE SegmentUtterance
  /\ UNCHANGED <<isCancelledRef, now, segmentRest>>

\* stop() of useNativeTTS: the flag, speechSynthesis.cancel(), the refs.
StopSegment ==
  /\ hook = "web"
  /\ isCancelledRef' = TRUE
  /\ utteranceRef' = NoUtterance
  /\ segment' = [segment EXCEPT
                   !.utterance = IF @ \in {"pending", "speaking", "stalled"}
                                 THEN "cancelled" ELSE @]
  /\ UNCHANGED <<now, segmentRest>>

\* The watchdog interval fires.
WatchdogPoll(late) ==
  /\ segment.resumeWatchdog
  /\ FiresAt(segment.tickDue, segment.tickDue + late)
  /\ now' = segment.tickDue + late
  /\ segment' = [resumeWatchdog(segment, isCancelledRef, SegmentSilent, now') EXCEPT
                   !.tickDue = @ + WatchdogPeriodMs,
                   !.event = "watchdog",
                   !.quiet = IF SegmentSilent THEN Append(@, now') ELSE <<>>]
  /\ UNCHANGED <<isCancelledRef, utteranceRef, segmentRest>>

\* The 2 s timer fires.
StartedCheck(late) ==
  /\ segment.startCheck
  /\ FiresAt(segment.startDue, segment.startDue + late)
  /\ now' = segment.startDue + late
  /\ segment' = [startedCheck(segment, SegmentSilent) EXCEPT
                   !.startCheck = FALSE, !.event = "startedCheck"]
  /\ UNCHANGED <<isCancelledRef, utteranceRef, segmentRest>>

\* The safety timer fires.
SafetyTimeoutFires(late) ==
  /\ segment.safetyTimeout
  /\ FiresAt(segment.safetyDue, segment.safetyDue + late)
  /\ now' = segment.safetyDue + late
  /\ segment' = [safetyTimeout(segment) EXCEPT !.event = "safetyTimeout"]
  /\ UNCHANGED <<isCancelledRef, utteranceRef, segmentRest>>

\* The engine begins to speak the utterance, or goes on after a stall.
UtteranceStarts ==
  /\ segment.utterance \in {"pending", "stalled"}
  /\ segment' = [segment EXCEPT !.utterance = "speaking"]
  /\ UNCHANGED <<isCancelledRef, utteranceRef, now, segmentRest>>

\* The engine goes silent without an event.
UtteranceStalls ==
  /\ segment.utterance \in {"pending", "speaking"}
  /\ segment' = [segment EXCEPT !.utterance = "stalled"]
  /\ UNCHANGED <<isCancelledRef, utteranceRef, now, segmentRest>>

\* utterance.onend
UtteranceEnds ==
  /\ segment.utterance \in {"speaking", "stalled", "cancelled"}
  /\ segment' = [utteranceOnEnd(segment) EXCEPT !.utterance = "over", !.event = "onend"]
  /\ UNCHANGED <<isCancelledRef, utteranceRef, now, segmentRest>>

SegmentErrors == {"synthesis-failed", "interrupted", "canceled"}

\* utterance.onerror
UtteranceFails(error) ==
  /\ segment.utterance \in {"pending", "speaking", "stalled", "cancelled"}
  /\ segment.utterance = "cancelled" => error \in {"interrupted", "canceled"}
  /\ segment' = [utteranceOnError(segment, error) EXCEPT
                   !.utterance = "over", !.event = error]
  /\ UNCHANGED <<isCancelledRef, utteranceRef, now, segmentRest>>

NextSegment ==
  \/ SpeakChunkWeb
  \/ StopSegment
  \/ \E late \in {0, MaxLateMs} : WatchdogPoll(late)
  \/ \E late \in {0, MaxLateMs} : StartedCheck(late)
  \/ \E late \in {0, MaxLateMs} : SafetyTimeoutFires(late)
  \/ UtteranceStarts
  \/ UtteranceStalls
  \/ UtteranceEnds
  \/ \E error \in SegmentErrors : UtteranceFails(error)

SpecSegment == InitSegment /\ [][NextSegment]_vars

(***************************************************************************)
(* The keep-alive heartbeat of tryWebSpeech: its 5 s interval, the pause()  *)
(* it issues and the resume() it schedules 50 ms later, with calls that     *)
(* may overlap.  A paused engine starts and ends no utterance.              *)
(***************************************************************************)
\* The callback of the heartbeat interval that call h set
heartbeatPulse(k, h, speaking) ==
  IF speaking /\ ~k.paused
  THEN [paused |-> TRUE, resumes |-> k.resumes + 1, by |-> h]
  ELSE k

\* A callback that does not look at the engine
heartbeatPulseAlways(k, h, speaking) ==
  [paused |-> TRUE, resumes |-> k.resumes + 1, by |-> h]

\* setTimeout(() => window.speechSynthesis.resume(), 50)
resumeTimer(k) == [k EXCEPT !.paused = FALSE, !.resumes = @ - 1]

InitPulse ==
  /\ hook = "web"
  /\ isSupported = TRUE
  /\ engineMode = "ok"
  /\ Init

pulseRest == <<hookVars, clientAudioCache, bridgeVars, segment, now, probe, answer, siteVars>>

\* The 5 s interval of a heartbeat that nothing has cleared ticks.
HeartbeatTick(h) ==
  /\ h \in heartbeats
  /\ keepAlive' = heartbeatPulse(keepAlive, h, synthSpeaking)
  /\ UNCHANGED pulseRest

\* The 50 ms timer of a pulse fires.
ResumeTimer ==
  /\ keepAlive.resumes > 0
  /\ keepAlive' = resumeTimer(keepAlive)
  /\ UNCHANGED pulseRest

SynthStartUnpaused ==
  /\ ~keepAlive.paused
  /\ SynthStart

SynthEndUnpaused ==
  /\ ~keepAlive.paused
  /\ SynthEnd

\* The caller invokes speak() with a text of one chunk, whether or not an
\* earlier call is still in flight.
SpeakShort(c) ==
  /\ hook = "web"
  /\ Speak(c, "short")

NextPulse ==
  \/ \E c \in CallIds : SpeakShort(c)
  \/ Stop
  \/ \E c \in CallIds : SettleDelayDone(c)
  \/ \E c \in CallIds : EngineResetDone(c)
  \/ \E c \in CallIds : BackoffDone(c)
  \/ SynthStartUnpaused
  \/ SynthEndUnpaused
  \/ SynthError
  \/ \E u \in Utterances : SynthCancelEvent(u)
  \/ \E c \in CallIds : WatchdogTick(c)
  \/ \E c \in CallIds : NeverStartedCheck(c)
  \/ \E c \in CallIds : SafetyTimeout(c)
  \/ \E h \in CallIds : HeartbeatTick(h)
  \/ ResumeTimer

SpecPulse == InitPulse /\ [][NextPulse]_vars


(***************************************************************************)
(* The school-student-approval edge function: one request is followed      *)
(* from its body to its response, one step per database call, while an     *)
(* administrator may revoke the token or ban the school in between.        *)
(***************************************************************************)
SchoolUuids == {"s1", "s2"}

SchoolIds == {"SCH1", "SCH2"}

Tokens == {"tokA", "tokB"}

StudentIds == {"st1", "st2", "st3"}

\* new Date() when the request arrives.
RequestTime == 1

\* The session_tokens rows with the given token: .eq('token', token)
TokenRows(table, token) == {r \in table : r.token = token}

\* null, where a row could be.
Null == [null |-> TRUE]

\* .maybeSingle(): the row, or null when there is none.
MaybeSingle(rows) == IF Cardinality(rows) = 1 THEN CHOOSE r \in rows : TRUE ELSE Null

\* The variant that does not look at is_revoked.
validateSessionTokenIgnoringRevoked(table, failed, clock, token, expectedUserType, expectedUserId) ==
  LET data == MaybeSingle(TokenRows(table, token))
  IN IF failed \/ data = Null THEN [valid |-> FALSE, data |-> data]
     ELSE IF data.expires_at < clock THEN [valid |-> FALSE, data |-> data]
     ELSE IF data.user_type # expectedUserType THEN [valid |-> FALSE, data |-> data]
     ELSE IF expectedUserId # "" /\ data.user_id # expectedUserId
       THEN [valid |-> FALSE, data |-> data]
     ELSE [valid |-> TRUE, data |-> data]

validateSessionToken(table, failed, clock, token, expectedUserType, expectedUserId) ==
  LET data == MaybeSingle(TokenRows(table, token))
  IN IF failed \/ data = Null THEN [valid |-> FALSE, data |-> data]
     ELSE IF data.is_revoked \/ data.expires_at < clock THEN [valid |-> FALSE, data |-> data]
     ELSE IF data.user_type # expectedUserType THEN [valid |-> FALSE, data |-> data]
     ELSE IF expectedUserId # "" /\ data.user_id # expectedUserId
       THEN [valid |-> FALSE, data |-> data]
     ELSE [valid |-> TRUE, data |-> data]

isBulk(body) == body.action \in {"bulk_approve", "bulk_reject"}

\* The students the request names.
Targets(body) ==
  IF isBulk(body) THEN {body.studentIds[i] : i \in 1..Len(body.studentIds)}
  ELSE {body.studentId}

\* The handler has answered with this status.
Respond(run, status, error) == [run EXCEPT !.pc = "done", !.status = status, !.error = error]

\* req.json() and the checks of the required fields.
receive(body) ==
  LET run == [pc |-> "token", body |-> body, status |-> 0, error |-> "",
              data |-> Null, checkedAt |-> 0, school |-> Null, found |-> {}]
  IN IF body.action = "" \/ body.schoolId = "" \/ body.schoolUuid = "" \/ body.sessionToken = ""
       THEN Respond(run, 400, "Missing required fields including session token")
     ELSE IF ~isBulk(body) /\ body.studentId = ""
       THEN Respond(run, 400, "Missing student ID")
     ELSE IF isBulk(body) /\ Len(body.studentIds) = 0
       THEN Respond(run, 400, "Missing student IDs for bulk operation")
     ELSE run

\* await validateSessionToken(admin, body.sessionToken, 'school', body.schoolUuid)
checkSession(run, table, failed, clock) ==
  LET validation == validateSessionToken(table, failed, clock, run.body.sessionToken,
                                         "school", run.body.schoolUuid)
      seen == [run EXCEPT !.data = validation.data, !.checkedAt = clock]
  IN IF ~validation.valid THEN Respond(seen, 401, "Invalid or expired session")
     ELSE [seen EXCEPT !.pc = "school"]

\* The schools lookup by id and school_id, and the checks of the row.
checkSchool(run, table, failed) ==
  LET school == MaybeSingle({r \in table : r.id = run.body.schoolUuid
                                           /\ r.school_id = run.body.schoolId})
      seen == [run EXCEPT !.school = school]
  IN IF failed \/ school = Null THEN Respond(run, 401, "School validation failed")
     ELSE IF school.is_banned THEN Respond(seen, 403, "School is banned")
     ELSE IF school.fee_paid = "false"
       THEN Respond(seen, 403, "School access suspended due to unpaid fees")
     ELSE [seen EXCEPT !.pc = "students"]

\* The students lookup: .in("id", studentIds), or .eq("id", studentId).maybeSingle()
checkStudents(run, table, failed) ==
  LET found == {r \in table : r.id \in Targets(run.body)}
      seen == [run EXCEPT !.found = found]
  IN IF isBulk(run.body)
       THEN IF failed THEN Respond(run, 500, "Students lookup failed")
            ELSE IF \E s \in found : s.school_id # run.school.id
              THEN Respond(seen, 403, "Some students do not belong to this school")
            ELSE [seen EXCEPT !.pc = "update"]
     ELSE IF failed \/ found = {} \/ \E s \in found : s.school_id # run.school.id
       THEN Respond(IF failed THEN run ELSE seen, 404, "Student not found for this school")
     ELSE [seen EXCEPT !.pc = "update"]

approves(body) == body.action \in {"approve", "bulk_approve"}

\* The text "No reason provided"
NoReasonProvided ==
  <<"N", "o", " ", "r", "e", "a", "s", "o", "n", " ",
    "p", "r", "o", "v", "i", "d", "e", "d">>

\* A rejection_reason or approved_at that is null.
NullText == <<"NULL">>

NullTime == 0

\* (body.rejectionReason || "No reason provided").trim()
reasonOf(body) ==
  IF body.rejectionReason = <<>> THEN NoReasonProvided ELSE Trim(body.rejectionReason)

\* The update of the students table: by .in("id", studentIds) or .eq("id", studentId)
updateStudents(table, body, clock) ==
  {IF r.id \in Targets(body)
     THEN IF approves(body)
            THEN [r EXCEPT !.is_approved = TRUE, !.approved_at = clock,
                           !.rejection_reason = NullText]
          ELSE [r EXCEPT !.is_approved = FALSE, !.rejection_reason = reasonOf(body)]
   ELSE r : r \in table}

\* The response after the update.
afterUpdate(run, failed) ==
  IF failed
    THEN Respond(run, 500, IF approves(run.body) THEN
                             IF isBulk(run.body) THEN "Failed to approve students"
                             ELSE "Failed to approve student"
                           ELSE IF isBulk(run.body) THEN "Failed to reject students"
                                ELSE "Failed to reject student")
  ELSE Respond(run, 200, "")

\* A reason with blanks around it.
PaddedReason == <<" ", "l", "a", "t", "e", " ">>

ApprovalBodies ==
  {b \in [action : {"", "approve", "reject", "bulk_approve", "bulk_reject"},
          schoolId : SchoolIds, schoolUuid : SchoolUuids,
          sessionToken : {""} \cup Tokens,
          studentId : {""} \cup StudentIds,
          studentIds : {<<>>, <<"st1">>, <<"st1", "st2">>, <<"st2", "st3">>},
          rejectionReason : {<<>>, PaddedReason}] :
     /\ isBulk(b) => b.studentId = ""
     /\ ~isBulk(b) => b.studentIds = <<>>
     /\ b.action = "" => b.studentId = "" /\ b.sessionToken = "tokA"
     /\ b.action \notin {"reject", "bulk_reject"} => b.rejectionReason = <<>>
     /\ b.sessionToken = "" => b.action = "approve" /\ b.studentId = "st1"}

SpeechIdle ==
  /\ hook = "web"
  /\ HooksIdle
  /\ clientAudioCache = <<>>
  /\ androidTTS = "absent"
  /\ BridgeIdle
  /\ SegmentIdle
  /\ keepAlive = NoPulse
  /\ probe = NoProbe
  /\ answer = NoAnswer

InitApproval ==
  /\ SpeechIdle
  /\ \E row \in [token : {"tokA"}, user_id : SchoolUuids, user_type : {"school", "admin"},
                 expires_at : {RequestTime - 1, RequestTime, RequestTime + 1},
                 is_revoked : {FALSE}] :
       sessionTokens = {row}
  /\ \E row \in [id : {"s1"}, school_id : {"SCH1"}, is_banned : {FALSE},
                 fee_paid : {"true", "false", "null"}] :
       schools = {row, [id |-> "s2", school_id |-> "SCH2", is_banned |-> FALSE,
                        fee_paid |-> "true"]}
  /\ \E home \in SchoolUuids :
       students = {[id |-> "st1", school_id |-> home, is_approved |-> FALSE,
                    approved_at |-> NullTime, rejection_reason |-> NullText],
                   [id |-> "st2", school_id |-> "s1", is_approved |-> FALSE,
                    approved_at |-> NullTime, rejection_reason |-> NullText]}
  /\ approval = NoApproval
  /\ serverClock = RequestTime
  /\ audioCache = <<>>
  /\ ttsRequests = NoTtsRequests
  /\ chapterRows = {}
  /\ chapterStudentId = "none"
  /\ progress = <<>>
  /\ toggles = <<>>
  /\ login = NoLogin
  /\ storage = {}
  /\ route = "/"

approvalRest == <<speechVars, serverVars, chapterVars, loginVars>>

\* A POST reaches the handler.
ApprovalRequest(body) ==
  /\ approval = NoApproval
  /\ approval' = receive(body)
  /\ UNCHANGED <<sessionTokens, schools, students, approvalRest>>

\* The session_tokens query answers.
SessionChecked(failed) ==
  /\ approval.pc = "token"
  /\ approval' = checkSession(approval, sessionTokens, failed, serverClock)
  /\ UNCHANGED <<sessionTokens, schools, students, approvalRest>>

\* The schools query answers.
SchoolChecked(failed) ==
  /\ approval.pc = "school"
  /\ approval' = checkSchool(approval, schools, failed)
  /\ UNCHANGED <<sessionTokens, schools, students, approvalRest>>

\* The students query answers.
StudentsChecked(failed) ==
  /\ approval.pc = "students"
  /\ approval' = checkStudents(approval, students, failed)
  /\ UNCHANGED <<sessionTokens, schools, students, approvalRest>>

\* The update answers: done, or refused by the database.
StudentsUpdated(failed) ==
  /\ approval.pc = "update"
  /\ students' = IF failed THEN students
                 ELSE updateStudents(students, approval.body, serverClock)
  /\ approval' = afterUpdate(approval, failed)
  /\ UNCHANGED <<sessionTokens, schools, approvalRest>>

\* The token is revoked by a logout or by an administrator.
TokenRevoked ==
  /\ approval.pc \in {"token", "school", "students", "update"}
  /\ \E r \in sessionTokens : ~r.is_revoked
  /\ sessionTokens' = {[r EXCEPT !.is_revoked = TRUE] : r \in sessionTokens}
  /\ UNCHANGED <<schools, students, approval, approvalRest>>

\* An administrator bans school s1.
SchoolBanned ==
  /\ approval.pc \in {"token", "school", "students", "update"}
  /\ \E r \in schools : r.id = "s1" /\ ~r.is_banned
  /\ schools' = {IF r.id = "s1" THEN [r EXCEPT !.is_banned = TRUE] ELSE r : r \in schools}
  /\ UNCHANGED <<sessionTokens, students, approval, approvalRest>>

NextApproval ==
  \/ \E body \in ApprovalBodies : ApprovalRequest(body)
  \/ \E failed \in BOOLEAN : SessionChecked(failed)
  \/ \E failed \in BOOLEAN : SchoolChecked(failed)
  \/ \E failed \in BOOLEAN : StudentsChecked(failed)
  \/ \E failed \in BOOLEAN : StudentsUpdated(failed)
  \/ TokenRevoked
  \/ SchoolBanned

SpecApproval == InitApproval /\ [][NextApproval]_vars


(***************************************************************************)
(* The text-to-speech edge function and its in-memory audio cache.  A      *)
(* request is named by the cache key of its text; two requests for one     *)
(* key may wait for Speechify side by side.  The clock is followed while   *)
(* the cache is nearly empty or full, and the keys are numbered as they    *)
(* first appear.                                                           *)
(***************************************************************************)
\* 30 * 60 * 1000
CACHE_TTL_MS == 1800000

ServerCacheLimit == 100

\* How far the clock moves in one step, and how far in all.
ClockTickMs == 600000

MaxServerTicks == 4

\* The largest key a request uses, and how many requests wait at a time.
MaxServerKeys == 102

MaxWaiting == 2

\* The cache is nearly empty or full, so that time is followed.
ClockFollowed(cache) == Len(cache) <= 1 \/ Len(cache) = ServerCacheLimit

\* The variant that deletes nothing.
cleanCacheKeepingAll(cache, clock) == cache

\* cleanCache(): delete the entries older than CACHE_TTL_MS.
cleanCache(cache, clock) ==
  SelectSeq(cache, LAMBDA e : ~(clock - e.timestamp > CACHE_TTL_MS))

\* audioCache.get(cacheKey): the entry, or undefined.
cacheGet(cache, key) ==
  LET at == {i \in 1..Len(cache) : cache[i].key = key}
  IN IF at = {} THEN Null ELSE cache[CHOOSE i \in at : TRUE]

\* audioCache.set(cacheKey, { audio, timestamp }): a present key keeps its place.
cacheSet(cache, key, clock) ==
  LET entry == [key |-> key, audio |-> key, timestamp |-> clock]
  IN IF \E i \in 1..Len(cache) : cache[i].key = key
       THEN [i \in 1..Len(cache) |-> IF cache[i].key = key THEN entry ELSE cache[i]]
     ELSE Append(cache, entry)

\* if (audioCache.size > 100) delete the first key
limitCache(cache) == IF Len(cache) > ServerCacheLimit THEN Tail(cache) ELSE cache

NoResponse == [status |-> 0]

\* The request up to the cache lookup: what it answers, the cache it leaves,
\* and whether it goes on to call Speechify.  With the audio the answer
\* carries how long ago that audio was stored.
lookup(srv, cache, clock, req) ==
  IF ~srv.apiKey
    THEN [response |-> [status |-> 500, error |-> "TTS service not configured"],
          cache |-> cache, fetch |-> FALSE]
  ELSE IF req.text = "missing"
    THEN [response |-> [status |-> 400, error |-> "Text is required"],
          cache |-> cache, fetch |-> FALSE]
  ELSE IF req.text = "unspeakable"
    THEN [response |-> [status |-> 400, error |-> "No speakable text provided"],
          cache |-> cache, fetch |-> FALSE]
  ELSE LET cleaned == cleanCache(cache, clock)
           cached == cacheGet(cleaned, req.key)
       IN IF cached # Null
            THEN [response |-> [status |-> 200, cached |-> TRUE, audio |-> cached.audio,
                                age |-> clock - cached.timestamp],
                  cache |-> cleaned, fetch |-> FALSE]
          ELSE [response |-> srv.response, cache |-> cleaned, fetch |-> TRUE]

\* The request after Speechify answered with this status.
store(cache, clock, key, status) ==
  IF status # 200
    THEN [response |-> [status |-> status,
                        error |-> IF status = 401
                                    THEN "TTS authentication failed. Please check API key."
                                  ELSE IF status = 429
                                    THEN "TTS rate limit reached. Please try again later."
                                  ELSE "TTS generation failed"],
          cache |-> cache]
  ELSE [response |-> [status |-> 200, cached |-> FALSE, audio |-> key, age |-> 0],
        cache |-> limitCache(cacheSet(cache, key, clock))]

\* The keys in the cache or waited for.
KeysInUse == {audioCache[i].key : i \in 1..Len(audioCache)}
               \cup {ttsRequests.waiting[i] : i \in 1..Len(ttsRequests.waiting)}

\* Key k follows the keys in use: no request that is remembered has used it.
FreshServerKey(k) == (\A j \in KeysInUse : j < k) /\ (k = 1 \/ k - 1 \in KeysInUse)

\* The requests: without text, with a text without speakable characters, or
\* with a text that has the given cache key.
TtsBodies == [text : {"missing", "unspeakable"}, key : {0}]
               \cup [text : {"spoken"}, key : 1..MaxServerKeys]

\* The keys a request may carry: the oldest cached one, the one that is
\* waited for, or a fresh one when none is waited for.
RequestKey(k) ==
  \/ audioCache # <<>> /\ k = audioCache[1].key
  \/ ttsRequests.waiting # <<>> /\ k = ttsRequests.waiting[1]
  \/ ttsRequests.waiting = <<>> /\ FreshServerKey(k)

InitServer ==
  /\ SpeechIdle
  /\ sessionTokens = {}
  /\ schools = {}
  /\ students = {}
  /\ approval = NoApproval
  /\ serverClock = 0
  /\ audioCache = <<>>
  /\ ttsRequests \in [apiKey : BOOLEAN, waiting : {<<>>}, response : {NoResponse}]
  /\ chapterRows = {}
  /\ chapterStudentId = "none"
  /\ progress = <<>>
  /\ toggles = <<>>
  /\ login = NoLogin
  /\ storage = {}
  /\ route = "/"

serverRest == <<speechVars, approvalVars, chapterVars, loginVars>>

\* A request arrives and runs until it answers or calls Speechify.
TtsRequest(req) ==
  /\ req.text = "spoken" => RequestKey(req.key)
  /\ LET r == lookup(ttsRequests, audioCache, serverClock, req)
     IN /\ r.fetch => Len(ttsRequests.waiting) < MaxWaiting
        /\ audioCache' = r.cache
        /\ ttsRequests' = [ttsRequests EXCEPT
                             !.response = r.response,
                             !.waiting = IF r.fetch THEN Append(@, req.key) ELSE @]
  /\ UNCHANGED <<serverClock, serverRest>>

\* Speechify answers the i-th waiting request.
SpeechifyAnswers(i, status) ==
  /\ i \in 1..Len(ttsRequests.waiting)
  /\ LET key == ttsRequests.waiting[i]
         r == store(audioCache, serverClock, key, status)
     IN /\ audioCache' = r.cache
        /\ ttsRequests' = [ttsRequests EXCEPT
                             !.response = r.response,
                             !.waiting = SubSeq(@, 1, i - 1) \o SubSeq(@, i + 1, Len(@))]
  /\ UNCHANGED <<serverClock, serverRest>>

\* Time passes on the server.
ServerClockTick ==
  /\ serverClock < MaxServerTicks * ClockTickMs
  /\ ClockFollowed(audioCache)
  /\ serverClock' = serverClock + ClockTickMs
  /\ UNCHANGED <<audioCache, ttsRequests, serverRest>>

NextServer ==
  \/ \E req \in TtsBodies : TtsRequest(req)
  \/ \E i \in 1..MaxWaiting, status \in {200, 401, 429, 500} : SpeechifyAnswers(i, status)
  \/ ServerClockTick

SpecServer == InitServer /\ [][NextServer]_vars


(***************************************************************************)
(* useChapterProgress: toggleChapterComplete calls of one student and one  *)
(* subject.  A call reads the progress list of the render it was made in,  *)
(* sends one statement to the database and applies the answer to the       *)
(* list; statements and answers of calls in flight travel independently.   *)
(***************************************************************************)
Chapters == {"ch1", "ch2"}

MaxToggles == 3

\* new Date() of a toggle.
ToggleTime == 1

\* The id gen_random_uuid() gives the row of a chapter.
RowId(chapter) == IF chapter = "ch1" THEN "row1" ELSE "row2"

\* progress.find(p => p.chapter === chapter): its index, or 0.
findChapter(list, chapter) ==
  LET at == {i \in 1..Len(list) : list[i].chapter = chapter}
  IN IF at = {} THEN 0 ELSE MinOf(at)

\* progress.some(p => p.chapter === chapter && p.is_completed)
isChapterComplete(list, chapter) ==
  \E i \in 1..Len(list) : list[i].chapter = chapter /\ list[i].is_completed

\* progress.filter(p => p.is_completed).length
getCompletedCount(list) == Cardinality({i \in 1..Len(list) : list[i].is_completed})

completedAt(status) == IF status THEN ToggleTime ELSE NullTime

\* The call up to its await: the toast without a student id, or the
\* statement it sends.
toggleChapterComplete(student, list, chapter) ==
  LET at == findChapter(list, chapter)
      call == [chapter |-> chapter, pc |-> "sent", kind |-> "insert", id |-> RowId(chapter),
               newStatus |-> TRUE, error |-> FALSE, toast |-> "none"]
  IN IF student = "none" THEN [call EXCEPT !.pc = "done", !.kind = "none",
                                           !.toast = "Login Required"]
     ELSE IF at # 0 THEN [call EXCEPT !.kind = "update", !.id = list[at].id,
                                      !.newStatus = ~list[at].is_completed]
     ELSE call

\* The statement of a call against the table: the update by id, or the
\* insert that the UNIQUE constraint may refuse.
execute(rows, call) ==
  IF call.kind = "update"
    THEN [rows |-> {IF r.id = call.id
                      THEN [r EXCEPT !.is_completed = call.newStatus,
                                     !.completed_at = completedAt(call.newStatus)]
                    ELSE r : r \in rows},
          error |-> FALSE]
  ELSE IF \E r \in rows : r.chapter = call.chapter
    THEN [rows |-> rows, error |-> TRUE]
  ELSE [rows |-> rows \cup {[id |-> call.id, chapter |-> call.chapter,
                             is_completed |-> TRUE, completed_at |-> ToggleTime]},
        error |-> FALSE]

\* The variant that updates the list whatever the answer.
applyAnswerOptimistic(list, call) ==
  IF call.kind = "update"
    THEN [i \in 1..Len(list) |->
            IF list[i].id = call.id
              THEN [list[i] EXCEPT !.is_completed = call.newStatus,
                                   !.completed_at = completedAt(call.newStatus)]
            ELSE list[i]]
  ELSE Append(list, [id |-> call.id, chapter |-> call.chapter, is_completed |-> TRUE,
                     completed_at |-> ToggleTime])

\* The call after its await: throw on error, else setProgress(prev => ...)
applyAnswer(list, call) ==
  IF call.error THEN list
  ELSE IF call.kind = "update"
    THEN [i \in 1..Len(list) |->
            IF list[i].id = call.id
              THEN [list[i] EXCEPT !.is_completed = call.newStatus,
                                   !.completed_at = completedAt(call.newStatus)]
            ELSE list[i]]
  ELSE Append(list, [id |-> call.id, chapter |-> call.chapter, is_completed |-> TRUE,
                     completed_at |-> ToggleTime])

\* The toast of a call that got its answer.
toastOf(call) ==
  IF call.error THEN "Error"
  ELSE IF call.newStatus THEN "Chapter Complete!" ELSE "Chapter Unmarked"

\* The rows of the table in the order the fetch returned them.
RowList(rows) ==
  IF rows = {} THEN <<>> ELSE <<CHOOSE r \in rows : TRUE>>

InitChapter ==
  /\ SpeechIdle
  /\ sessionTokens = {}
  /\ schools = {}
  /\ students = {}
  /\ approval = NoApproval
  /\ serverClock = 0
  /\ audioCache = <<>>
  /\ ttsRequests = NoTtsRequests
  /\ chapterStudentId \in {"none", "stu1"}
  /\ \E done \in BOOLEAN :
       chapterRows \in {{}, {[id |-> "row1", chapter |-> "ch1", is_completed |-> done,
                              completed_at |-> completedAt(done)]}}
  /\ progress = IF chapterStudentId = "none" THEN <<>> ELSE RowList(chapterRows)
  /\ toggles = <<>>
  /\ login = NoLogin
  /\ storage = {}
  /\ route = "/"

chapterRest == <<speechVars, approvalVars, serverVars, loginVars, chapterStudentId>>

\* The user taps a chapter.
ToggleChapterComplete(chapter) ==
  /\ Len(toggles) < MaxToggles
  /\ toggles' = Append(toggles, toggleChapterComplete(chapterStudentId, progress, chapter))
  /\ UNCHANGED <<chapterRows, progress, chapterRest>>

\* The database runs the statement of call i, or the request fails.
StatementRuns(i, failed) ==
  /\ i \in 1..Len(toggles)
  /\ toggles[i].pc = "sent"
  /\ LET r == execute(chapterRows, toggles[i])
     IN /\ chapterRows' = IF failed THEN chapterRows ELSE r.rows
        /\ toggles' = [toggles EXCEPT ![i].pc = "answered",
                                      ![i].error = failed \/ r.error]
  /\ UNCHANGED <<progress, chapterRest>>

\* The answer of call i reaches the hook.
ToggleSettles(i) ==
  /\ i \in 1..Len(toggles)
  /\ toggles[i].pc = "answered"
  /\ progress' = applyAnswer(progress, toggles[i])
  /\ toggles' = [toggles EXCEPT ![i].pc = "done", ![i].toast = toastOf(toggles[i])]
  /\ UNCHANGED <<chapterRows, chapterRest>>

NextChapter ==
  \/ \E chapter \in Chapters : ToggleChapterComplete(chapter)
  \/ \E i \in 1..MaxToggles, failed \in BOOLEAN : StatementRuns(i, failed)
  \/ \E i \in 1..MaxToggles : ToggleSettles(i)

SpecChapter == InitChapter /\ [][NextChapter]_vars


(***************************************************************************)
(* SchoolLogin: the login form, the password reset form that replaces it   *)
(* when the server asks for a new password, and the answers of the         *)
(* secure-auth function.  The submit buttons are disabled while isLoading. *)
(***************************************************************************)
MinPasswordLen == 8

\* A password of n letters c.
Pw(n, c) == [i \in 1..n |-> c]

Passwords == {<<>>, Pw(MinPasswordLen - 1, "a"), Pw(MinPasswordLen, "a"),
              Pw(MinPasswordLen, "b")}

\* What supabase.functions.invoke("secure-auth", login) may give back: an
\* invoke error, a rate limit, an error, success with or without a required
\* password reset, a body with none of these, or no body.
LoginAnswerKinds == {"invokeError", "rateLimited", "error", "success", "successReset",
                     "empty", "null"}

\* And for reset_password: an invoke error, an error, a new token, or no body.
ResetAnswerKinds == {"invokeError", "error", "ok", "null"}

MountedLogin ==
  [pc |-> "idle", isLoading |-> FALSE, rateLimitWait |-> 0,
   requiresPasswordReset |-> FALSE, newPassword |-> <<>>, confirmPassword |-> <<>>,
   sessionToken |-> "", toast |-> "none", answer |-> "none"]

\* sessionStorage.schoolSession, with its sessionToken, and the localStorage keys.
NoStorage == [schoolSession |-> "none", userType |-> "none", schoolSessionToken |-> "none"]

LoginPage == "/school-login"

Dashboard == "/school-dashboard"

Page(l, st, r) == [login |-> l, storage |-> st, route |-> r]

\* The variant that sends whatever was typed.
handlePasswordResetUnchecked(p) ==
  [p EXCEPT !.login.isLoading = TRUE, !.login.pc = "reset"]

\* handlePasswordReset up to its await.
handlePasswordReset(p) ==
  IF p.login.newPassword # p.login.confirmPassword
    THEN [p EXCEPT !.login.toast = "Passwords Don't Match"]
  ELSE IF JsLen(p.login.newPassword) < MinPasswordLen
    THEN [p EXCEPT !.login.toast = "Password Too Short"]
  ELSE [p EXCEPT !.login.isLoading = TRUE, !.login.pc = "reset"]

\* handlePasswordReset after its await.
resetAnswered(p, kind) ==
  LET seen == [p EXCEPT !.login.answer = kind, !.login.pc = "idle",
                        !.login.isLoading = FALSE]
  IN IF kind \in {"invokeError", "error", "null"}
       THEN [seen EXCEPT !.login.toast = "Reset Failed"]
     ELSE [seen EXCEPT !.storage.schoolSession = "tok2",
                       !.storage.schoolSessionToken = "tok2",
                       !.login.toast = "Password Updated!",
                       !.route = Dashboard]

\* handleLogin up to its await.
handleLogin(p) == [p EXCEPT !.login.isLoading = TRUE, !.login.pc = "login"]

\* handleLogin after its await.
loginAnswered(p, kind) ==
  LET seen == [p EXCEPT !.login.answer = kind, !.login.pc = "idle",
                        !.login.isLoading = FALSE]
      stored == [seen EXCEPT !.storage = [schoolSession |-> "tok1", userType |-> "school",
                                          schoolSessionToken |-> "tok1"]]
  IN IF kind \in {"invokeError", "null"} THEN [seen EXCEPT !.login.toast = "Login Failed"]
     ELSE IF kind = "rateLimited"
       THEN [seen EXCEPT !.login.rateLimitWait = 60, !.login.toast = "Too Many Attempts"]
     ELSE IF kind = "error" THEN [seen EXCEPT !.login.toast = "Login Failed"]
     ELSE IF kind = "successReset"
       THEN [stored EXCEPT !.login.sessionToken = "tok1",
                           !.login.requiresPasswordReset = TRUE,
                           !.login.toast = "Password Reset Required"]
     ELSE IF kind = "success"
       THEN [stored EXCEPT !.login.toast = "Welcome!", !.route = Dashboard]
     ELSE seen

InitLogin ==
  /\ SpeechIdle
  /\ sessionTokens = {}
  /\ schools = {}
  /\ students = {}
  /\ approval = NoApproval
  /\ serverClock = 0
  /\ audioCache = <<>>
  /\ ttsRequests = NoTtsRequests
  /\ chapterRows = {}
  /\ chapterStudentId = "none"
  /\ progress = <<>>
  /\ toggles = <<>>
  /\ login = MountedLogin
  /\ storage = NoStorage
  /\ route = LoginPage

loginRest == <<speechVars, approvalVars, serverVars, chapterVars>>

CommitPage(p) ==
  /\ login' = p.login
  /\ storage' = p.storage
  /\ route' = p.route
  /\ UNCHANGED loginRest

\* The login form is submitted.
HandleLogin ==
  /\ route = LoginPage
  /\ ~login.requiresPasswordReset
  /\ ~login.isLoading
  /\ CommitPage(handleLogin(Page(login, storage, route)))

\* secure-auth answers the login.
LoginAnswers(kind) ==
  /\ login.pc = "login"
  /\ CommitPage(loginAnswered(Page(login, storage, route), kind))

\* The user fills in the two fields of the reset form.
PasswordsTyped(new, confirm) ==
  /\ route = LoginPage
  /\ login.requiresPasswordReset
  /\ login' = [login EXCEPT !.newPassword = new, !.confirmPassword = confirm]
  /\ UNCHANGED <<storage, route, loginRest>>

\* The reset form is submitted.
HandlePasswordReset ==
  /\ route = LoginPage
  /\ login.requiresPasswordReset
  /\ ~login.isLoading
  /\ CommitPage(handlePasswordReset(Page(login, storage, route)))

\* secure-auth answers the reset.
ResetAnswers(kind) ==
  /\ login.pc = "reset"
  /\ CommitPage(resetAnswered(Page(login, storage, route), kind))

NextLogin ==
  \/ HandleLogin
  \/ \E kind \in LoginAnswerKinds : LoginAnswers(kind)
  \/ \E new \in Passwords, confirm \in Passwords : PasswordsTyped(new, confirm)
  \/ HandlePasswordReset
  \/ \E kind \in ResetAnswerKinds : ResetAnswers(kind)

SpecLogin == InitLogin /\ [][NextLogin]_vars


(***************************************************************************)
(* Properties                                                              *)
(***************************************************************************)
\* A later call than c has been made with text that is spoken.
Superseded(c) ==
  \E d \in CallIds : d > c /\ calls[d].pc # "idle" /\ CleanOf[calls[d].text] # <<>>

\* C1: under useNativeTTS, a call that is inside its chunk loop (awaiting the
\* utterance it submitted) and has been superseded by a later speak() call with
\* speakable text submits no further utterance to speechSynthesis.
C1_NoInterleaving ==
  [][\A c \in CallIds :
       (hook = "web" /\ calls[c].pc = "chunk" /\ Superseded(c))
       => \A u \in QueueSet(synthQueue') : u.c = c => u \in QueueSet(synthQueue)]_vars

\* C2: a premium request that was superseded by a later speak() while it was
\* awaiting the remote answer never creates an audio element when the answer
\* arrives.
C2_NoLateAudio ==
  [][\A c \in CallIds :
       (calls[c].pc = "premWait" /\ Superseded(c)) => audio'[c] = "none"]_vars

\* C3: when an earlier call settles while a later call has set isSpeaking and
\* is still at work, the settling leaves the reported isSpeaking and
\* activeEngine as they were.
C3_LateSettleKeepsState ==
  [][\A c, d \in CallIds :
       (/\ c < d
        /\ InFlight(c)
        /\ calls'[c].pc = "done"
        /\ calls[d].pc \in {"reset", "chunk", "backoff"}
        /\ calls'[d] = calls[d]
        /\ ReportedSpeaking(World))
       => /\ ReportedSpeaking(World)'
          /\ ReportedEngine(World)' = ReportedEngine(World)]_vars

\* A timer the call itself set is pending: whatever the engines do, the call
\* moves on when it fires.
OwnTimer(c) ==
  \/ SettleDelayDone(c)
  \/ EngineResetDone(c)
  \/ BackoffDone(c)
  \/ WatchdogTick(c)
  \/ NeverStartedCheck(c)
  \/ SafetyTimeout(c)

\* C4: useNativeTTS.speak and useSmartTTS.speak always settle whatever the
\* engines do: a call that is in flight, past the remote request and the
\* promise of audio.play(), always has a timer of its own pending, so that it
\* does not depend on an event the engine or the audio element may never fire.
C4_AlwaysSettles ==
  \A c \in CallIds :
    (/\ hook \in {"web", "smart"}
     /\ InFlight(c)
     /\ calls[c].pc # "premWait"
     /\ audio[c] \notin {"starting", "resetStarting"})
    => ENABLED OwnTimer(c)

\* C5: when useSmartTTS.speak tried premium and premium failed, it goes on to
\* Web Speech with the same text; and when a call that fell back ends with
\* success for a text that is spoken, the engine it reports is web, the
\* state's activeEngine is web and no error is recorded.
C5_FallbackChain ==
  [][\A c \in CallIds :
       /\ (hook = "smart" /\ calls[c].prem = "tried" /\ calls'[c].prem = "failed")
          => /\ calls'[c].text = calls[c].text
             /\ calls'[c].pc = IF isSupported /\ CleanOf[calls[c].text] # <<>>
                               THEN "settle" ELSE "done"
       /\ (/\ hook = "smart"
           /\ InFlight(c)
           /\ calls'[c].pc = "done"
           /\ calls'[c].prem = "failed"
           /\ calls'[c].res.success
           /\ CleanOf[calls[c].text] # <<>>)
          => /\ calls'[c].res.engine = "web"
             /\ state'.activeEngine = "web"
             /\ state'.error = ""]_vars

C5_Witness ==
  \E c \in CallIds :
    /\ hook = "smart"
    /\ calls[c].pc = "done"
    /\ calls[c].prem = "failed"
    /\ calls[c].res = [success |-> TRUE, engine |-> "web", error |-> ""]
    /\ state.activeEngine = "web"
    /\ state.error = ""

\* No engine gives any audio: speechSynthesis is missing, accepts utterances
\* and stays silent, or throws.
NoAudioEngine == ~isSupported \/ engineMode # "ok"

\* C6: when a call for a text that is spoken ends, no engine gave audio
\* (premium did not succeed, the Web Speech engine is missing, silent or
\* throwing) and stop() was not called while Web Speech was at work (the
\* cancel flag is still clear), its result is success = false, engine none and an error message,
\* and under useSmartTTS the state has the error, isSpeaking false and
\* activeEngine none.
C6_TotalFailureReported ==
  [][\A c \in CallIds :
       (/\ hook \in {"web", "smart"}
        /\ NoAudioEngine
        /\ isSupported => ~isCancelledRef'
        /\ calls[c].pc # "done"
        /\ calls'[c].pc = "done"
        /\ calls'[c].prem # "ok"
        /\ CleanOf[calls'[c].text] # <<>>)
       => /\ ~calls'[c].res.success
          /\ calls'[c].res.engine = "none"
          /\ calls'[c].res.error \notin {"", "unset"}
          /\ hook = "smart" => /\ state'.error # ""
                               /\ ~ReportedSpeaking(World)'
                               /\ state'.activeEngine = "none"]_vars

\* C7: useSmartTTS.speak turns to premium only if studentId is set and the
\* usage snapshot at the call has plan pro, canUsePremium and ttsRemaining >=
\* the text length; otherwise a text that is not blank goes to Web Speech
\* directly.
C7_PremiumGating ==
  [][\A c \in CallIds :
       (hook = "smart" /\ calls[c].pc = "idle" /\ calls'[c].pc # "idle")
       => LET t == calls'[c].text
              eligible == /\ studentId # "none"
                          /\ usageInfo.plan = "pro"
                          /\ usageInfo.canUsePremium
                          /\ usageInfo.ttsRemaining >= TextLength(t)
          IN /\ calls'[c].prem # "none" => eligible
             /\ (~eligible /\ ~IsBlank(t))
                => /\ calls'[c].prem = "none"
                   /\ calls'[c].pc \in {"settle", "done"}]_vars

C7_Witness ==
  \E c \in CallIds :
    /\ calls[c].pc = "premWait"
    /\ usageInfo.plan = "pro"
    /\ usageInfo.ttsRemaining = LowQuota
    /\ TextLength(calls[c].text) <= LowQuota

\* C8: under useSmartTTS a call is on the Web Speech path only if premium was
\* not tried or failed; a call whose premium playback succeeded has returned
\* and no utterance of it is with the speech engine.
C8_EngineOrder ==
  hook = "smart" =>
    /\ \A c \in CallIds :
         /\ calls[c].pc \in {"settle", "reset", "chunk", "backoff"}
            => calls[c].prem \in {"none", "failed"}
         /\ calls[c].prem = "ok" => calls[c].pc = "done"
         /\ calls[c].prem = "tried" => calls[c].pc \in {"premWait", "premPlay"}
    /\ \A u \in QueueSet(synthQueue) : calls[u.c].prem # "ok"

C8_Witness ==
  \E c \in CallIds :
    hook = "smart" /\ calls[c].prem = "ok" /\ calls[c].pc = "done" /\ audio[c] = "closed"

\* C9: on a device with speechSynthesis, a speak() whose sanitized text is
\* empty returns at once: success with engine none (useNativeTTS result),
\* nothing sent to the remote function or to speechSynthesis, the error left
\* as it was, and isSpeaking false afterwards.
C9_EmptyTextNoOp ==
  [][\A c \in CallIds :
       (/\ hook \in {"web", "smart"}
        /\ isSupported
        /\ calls[c].pc = "idle"
        /\ calls'[c].pc # "idle"
        /\ CleanOf[calls'[c].text] = <<>>)
       => /\ calls'[c].pc = "done"
          /\ hook = "web"
             => calls'[c].res = [success |-> TRUE, engine |-> "none", error |-> ""]
          /\ calls'[c].prem = "none"
          /\ QueueSet(synthQueue') \subseteq QueueSet(synthQueue)
          /\ state'.error = state.error
          /\ ~ReportedSpeaking(World)']_vars

NativePcs == {"settle", "reset", "chunk", "backoff"}

\* C11: once stop() has set the cancellation flag during a useNativeTTS speak
\* (and no new speak has cleared it), no step submits an utterance to the
\* engine, the chunk loop takes no further turn, and the call only moves
\* towards its end; and a step that is a stop() leaves the flag set.
C11_CancelStopsDispatch ==
  [][/\ (hook \in {"web", "smart"} /\ World' = Effects(World, stop(World)))
          => isCancelledRef'
     /\ \A c \in CallIds :
          (hook \in {"web", "smart"} /\ isCancelledRef /\ calls[c].pc \in NativePcs)
            => /\ QueueSet(synthQueue') \subseteq QueueSet(synthQueue)
               /\ currentChunkIndexRef' = currentChunkIndexRef
               /\ calls'[c].pc # "done"
                    => calls'[c].i = calls[c].i /\ calls'[c].attempt = calls[c].attempt
               /\ calls'[c].pc \in
                    CASE calls[c].pc = "settle" -> {"settle", "reset"}
                      [] calls[c].pc = "reset" -> {"reset", "done"}
                      [] calls[c].pc = "chunk" -> {"chunk", "backoff", "done"}
                      [] OTHER -> {"backoff", "done"}]_vars

\* stop() was called while chunk 0 of a two-chunk text was with the engine.
C11_Witness ==
  /\ hook = "web"
  /\ isCancelledRef
  /\ \E c \in CallIds : calls[c].pc = "chunk" /\ calls[c].i + 1 < calls[c].n

\* The utterances of call c that a step adds to the engine queue.
Submitted(c) == {u \in QueueSet(synthQueue') \ QueueSet(synthQueue) : u.c = c}

\* C12: within one speak call the chunks go to the engine in increasing index
\* order, one at a time: a step submits at most one utterance of a call, and
\* it is chunk 0 after the engine reset, or chunk i+1 in the step in which
\* chunk i settled, or the next attempt (at most the third) at chunk i after
\* its backoff; the watchdog and the never-started check run only for the
\* one submission that is awaited.
C12_StrictSequencing ==
  [][\A c \in CallIds :
       /\ (calls[c].wdOn \/ calls[c].ns) => calls[c].pc = "chunk"
       /\ Cardinality(Submitted(c)) <= 1
       /\ \A u \in Submitted(c) :
            /\ calls'[c].pc = "chunk"
            /\ u.i = calls'[c].i /\ u.a = calls'[c].attempt
            /\ u.i < calls'[c].n
            /\ CASE calls[c].pc = "reset" -> u.i = 0 /\ u.a = 1
                 [] calls[c].pc = "chunk" -> u.i = calls[c].i + 1 /\ u.a = 1
                 [] calls[c].pc = "backoff" ->
                      u.i = calls[c].i /\ u.a = calls[c].attempt + 1 /\ u.a <= MaxAttempts
                 [] OTHER -> FALSE]_vars

\* The second chunk of a text is with the engine at its second attempt.
C12_Witness ==
  \E c \in CallIds :
    /\ calls[c].pc = "chunk" /\ calls[c].i = 1 /\ calls[c].attempt = 2
    /\ CurrentUtterance(World, c) \in QueueSet(synthQueue)

\* chunks.join(SPACE)
RECURSIVE JoinChunks(_)
JoinChunks(chunks) ==
  IF chunks = <<>> THEN <<>>
  ELSE IF Len(chunks) = 1 THEN chunks[1]
  ELSE chunks[1] \o <<" ">> \o JoinChunks(Tail(chunks))

\* A text up to whitespace normalization: its words, in order.
Words(s) == SelectSeq(SplitWs(s), LAMBDA x : x # <<>>)

\* A chunker has answered.
Chunked == answer.fn \in {"splitIntoChunks", "splitForNativeTTS"}

\* C13: the chunks returned by splitIntoChunks and by splitForNativeTTS,
\* joined with single spaces, are the input text up to whitespace
\* normalization: the same words in the same order.
C13_ChunkerLossless ==
  Chunked => Words(JoinChunks(answer.chunks)) = Words(probe.text)

\* splitIntoChunks split an over-long sentence at word level and merged its
\* tail with the sentence that follows.
C13_Witness ==
  /\ answer.fn = "splitIntoChunks"
  /\ probe.maxLength = 3
  /\ probe.text = <<"a", "b", " ", ".", " ", "b">>
  /\ answer.chunks = <<<<"a", "b">>, <<".", " ", "b">>>>

\* A chunk that is one word: it holds no whitespace.
SingleWord(chunk) == \A k \in 1..Len(chunk) : chunk[k] \notin Whitespace

\* A chunk within the bound, or a single word that cannot be split.
WithinBound(chunk) == JsLen(chunk) <= probe.maxLength \/ SingleWord(chunk)

\* C14: every chunk returned by splitIntoChunks is at most maxLength long,
\* unless it is a single word longer than maxLength.
C14_WebChunkBound ==
  answer.fn = "splitIntoChunks"
    => \A k \in 1..Len(answer.chunks) : WithinBound(answer.chunks[k])

\* C15: every chunk returned by splitForNativeTTS is at most maxLength long,
\* unless it is a single word longer than maxLength (a longer sentence of
\* several words is split at word boundaries).
C15_NativeChunkBound ==
  answer.fn = "splitForNativeTTS"
    => \A k \in 1..Len(answer.chunks) : WithinBound(answer.chunks[k])

\* C16: no chunk returned by splitIntoChunks or splitForNativeTTS is empty or
\* whitespace-only, and a text no longer than maxLength comes back as the
\* one chunk.
C16_NoEmptyChunk ==
  Chunked
    => /\ \A k \in 1..Len(answer.chunks) : Trim(answer.chunks[k]) # <<>>
       /\ JsLen(probe.text) <= probe.maxLength => answer.chunks = <<probe.text>>

\* The text is two sentences, each no longer than maxLength, separated by
\* one space, and longer than maxLength as a whole.
TwoSentences(s1, s2) ==
  /\ probe.text = s1 \o <<" ">> \o s2
  /\ SplitAfter(probe.text, NativeSentenceEnders) = <<s1, s2>>
  /\ SplitAfter(probe.text, SentenceEnders) = <<s1, s2>>
  /\ s1 # <<>> /\ s2 # <<>>
  /\ JsLen(s1) <= probe.maxLength /\ JsLen(s2) <= probe.maxLength
  /\ JsLen(probe.text) > probe.maxLength

\* C17: for a text of two sentences separated by one space, each no longer
\* than maxLength and together longer than maxLength, both chunkers return
\* exactly the two sentences, in order.
C17_GreedyPacking ==
  Chunked
    => \A n \in 1..Len(probe.text) :
         LET s1 == Slice(probe.text, 1, n - 1)
             s2 == Slice(probe.text, n + 1, Len(probe.text))
         IN (probe.text[n] = " " /\ TwoSentences(s1, s2))
              => answer.chunks = <<s1, s2>>

\* C18: with h Devanagari characters and e Latin letters in the text,
\* detectLanguage returns hi-IN when h + e = 0 or 10h > 3(h + e), and en-IN
\* otherwise: all-Devanagari text gives hi-IN, all-Latin text gives en-IN,
\* and a ratio of exactly 0.3 gives en-IN.
C18_ScriptDetector ==
  answer.fn = "detectLanguage"
    => /\ answer.locale =
            IF probe.h + probe.e = 0 \/ 10 * probe.h > 3 * (probe.h + probe.e)
            THEN "hi-IN" ELSE "en-IN"
       /\ (probe.h > 0 /\ probe.e = 0) => answer.locale = "hi-IN"
       /\ (probe.e > 0 /\ probe.h = 0) => answer.locale = "en-IN"
       /\ (probe.h + probe.e > 0 /\ 10 * probe.h = 3 * (probe.h + probe.e))
            => answer.locale = "en-IN"

\* A text with 3 Devanagari characters and 7 Latin letters was classified.
C18_Witness ==
  /\ answer.fn = "detectLanguage"
  /\ probe.h = 3 /\ probe.e = 7
  /\ answer.locale = "en-IN"

\* C19 as stated: clientAudioCache never holds more than 50 entries.
C19_CacheAtMostFifty == Len(clientAudioCache) <= CacheCapacity

\* C19, amended: clientAudioCache never holds more than 51 entries and no
\* key twice; an insert into a cache of more than 50 entries first evicts
\* the oldest-inserted entry and nothing else, and an insert into a cache of
\* at most 50 entries evicts nothing.
C19_CacheBounded ==
  [][/\ Len(clientAudioCache') <= CacheCapacity + 1
     /\ Cardinality(QueueSet(clientAudioCache')) = Len(clientAudioCache')
     /\ LET old == clientAudioCache
            kept == IF Len(old) > CacheCapacity THEN Tail(old) ELSE old
        IN /\ Len(clientAudioCache') >= Len(kept)
           /\ SubSeq(clientAudioCache', 1, Len(kept)) = kept
           /\ Len(clientAudioCache') <= Len(kept) + 1]_vars

\* The cache holds 51 entries and its oldest entries have been evicted.
C19_Witness ==
  /\ Len(clientAudioCache) = CacheCapacity + 1
  /\ ~InCache(clientAudioCache, 1)

\* C20: a premium speak asks the remote function only when clientAudioCache
\* has no entry for its key; on a hit the cached audio is played and no
\* request is made; and the cache changes only in the step in which a
\* request is answered with audio, by an entry for that request's key.
C20_CacheBeforeRemote ==
  [][/\ \A c \in CallIds :
          (calls[c].pc = "idle" /\ calls'[c].prem = "tried")
            => IF InCache(clientAudioCache, CacheKey(calls'[c].text))
               THEN calls'[c].pc = "premPlay" /\ audio'[c] = "starting"
               ELSE calls'[c].pc = "premWait" /\ audio'[c] = "none"
     /\ \A c \in CallIds :
          (calls[c].pc # "premWait" /\ calls'[c].pc = "premWait")
            => ~InCache(clientAudioCache, CacheKey(calls'[c].text))
     /\ clientAudioCache' # clientAudioCache
          => \E c \in CallIds :
               /\ calls[c].pc = "premWait"
               /\ calls'[c].pc = "premPlay" /\ audio'[c] = "starting"
               /\ ~InCache(clientAudioCache, CacheKey(calls[c].text))
               /\ InCache(clientAudioCache', CacheKey(calls[c].text))
               /\ Len(clientAudioCache') = Len(clientAudioCache) + 1]_vars

\* The second call of useSmartTTS.speak repeats the text of the first, which
\* premium has spoken, and plays it from the cache.
C20_Witness ==
  /\ hook = "smart"
  /\ calls[1].pc = "done" /\ calls[1].prem = "ok"
  /\ calls[2].pc = "premPlay" /\ calls[2].text = calls[1].text
  /\ InCache(clientAudioCache, CacheKey(calls[2].text))

\* C21: after stopAndroidNativeTTS returns, window.onAndroidTTSDone and
\* window.onAndroidTTSError are both undefined, whether the bridge is present
\* or absent and whether or not its stop() throws; the call never throws, and
\* a second call in a row changes nothing.
C21_StopClearsRegistrations ==
  [][answer'.fn = "stopAndroidNativeTTS" =>
       /\ onAndroidTTSDone' = 0
       /\ onAndroidTTSError' = 0
       /\ ~answer'.threw
       /\ (answer.fn = "stopAndroidNativeTTS" /\ answer'.again /\ ~answer.again)
            => UNCHANGED <<onAndroidTTSDone, onAndroidTTSError, nativeCalls>>]_vars

\* C22: every promise speakWithAndroidNative returned is eventually resolved,
\* by the done callback, the error callback or the safety timeout, also when
\* stopAndroidNativeTTS is called first and when the bridge never calls back.
C22_NativeSpeakResolves ==
  \A p \in NativeCallIds :
    (nativeCalls[p].pc = "pending") ~> (nativeCalls[p].pc = "resolved")

\* The voices getBestVoice chooses from: the availableVoices state, or what
\* the engine lists while that state is empty.
Available == IF probe.availableVoices # <<>> THEN probe.availableVoices ELSE probe.voices

HasLang(voices, prefix) == \E k \in 1..Len(voices) : StartsWith(voices[k].lang, prefix)

\* C23: getBestVoice returns null exactly when no voice is available; with
\* an available voice whose locale starts with hi it returns a voice whose
\* locale starts with hi; otherwise an en-IN voice if there is one, otherwise
\* an English voice if there is one, otherwise the first voice.  tryWebSpeech
\* uses a voice the engine lists under the requested name before any of these.
C23_VoiceSelection ==
  /\ answer.fn = "getBestVoice" =>
       /\ (answer.voice = NoVoice) <=> (probe.availableVoices = <<>> /\ probe.voices = <<>>)
       /\ answer.voice # NoVoice => \E k \in 1..Len(Available) : answer.voice = Available[k]
       /\ HasLang(Available, <<"h", "i">>) => StartsWith(answer.voice.lang, <<"h", "i">>)
       /\ (~HasLang(Available, <<"h", "i">>) /\ HasLang(Available, EnIN))
            => answer.voice.lang = EnIN
       /\ (~HasLang(Available, <<"h", "i">>) /\ ~HasLang(Available, EnIN)
             /\ HasLang(Available, <<"e", "n">>))
            => StartsWith(answer.voice.lang, <<"e", "n">>)
       /\ (Available # <<>> /\ ~HasLang(Available, <<"h", "i">>)
             /\ ~HasLang(Available, <<"e", "n">>))
            => answer.voice = Available[1]
  /\ answer.fn = "tryWebSpeech" =>
       IF probe.voiceName # <<>> /\ \E k \in 1..Len(probe.voices) : probe.voices[k].name = probe.voiceName
       THEN answer.voice.name = probe.voiceName
              /\ \E k \in 1..Len(probe.voices) : answer.voice = probe.voices[k]
       ELSE answer.voice = getBestVoice(probe.availableVoices, probe.voices)

\* getBestVoice passed over the first voice, an en-US one, for the en-IN voice
\* behind it
C23_Witness ==
  /\ answer.fn = "getBestVoice"
  /\ probe.availableVoices = <<>>
  /\ Len(probe.voices) = 2
  /\ probe.voices[1].lang = <<"e", "n", "-", "U", "S">>
  /\ answer.voice = probe.voices[2]
  /\ answer.voice.lang = EnIN

\* What speakChunkWeb resolves with when the named event is the first to fire.
OutcomeOf(event) ==
  CASE event \in {"onend", "interrupted", "canceled", "watchdog", "safetyTimeout"} -> Completed
    [] event = "startedCheck" -> NeverStarted
    [] event = "cancelled" -> [completed |-> FALSE, stoppedEarly |-> FALSE, error |-> ""]
    [] OTHER -> SegmentError(event)

\* C24: a speakChunkWeb promise is resolved at most once, and once it is
\* settled; the first resolution carries the outcome of the event that fired
\* and leaves neither the safety timer nor the watchdog interval armed; every
\* later event leaves the result, the settled flag and the timers as they are.
C24_SettlesOnce ==
  [][/\ segment'.resolves <= 1
     /\ segment'.settled => segment'.resolves = 1
     /\ (segment.resolves = 0 /\ segment'.resolves = 1)
          => /\ segment'.result = OutcomeOf(segment'.event)
             /\ ~segment'.safetyTimeout
             /\ ~segment'.resumeWatchdog
     /\ segment.resolves >= 1
          => /\ segment'.result = segment.result
             /\ segment'.resolves = segment.resolves
             /\ segment'.settled = segment.settled
             /\ ~segment'.safetyTimeout
             /\ ~segment'.resumeWatchdog]_vars

\* the 2 s check settled a stalled utterance as never started, and the
\* engine fired onend for it afterwards
C24_Witness ==
  /\ segment.settled
  /\ segment.resolves = 1
  /\ segment.result = NeverStarted
  /\ segment.event = "onend"
  /\ segment.utterance = "over"

\* C25: when the engine accepts the utterance and then never reports
\* speaking or pending and fires no event, the segment is settled only as a
\* failure with error never-started, never as completed.
C25_NeverStartedIsFailure ==
  (/\ engineMode = "dead"
   /\ segment.pc = "called"
   /\ segment.event # "cancelled"
   /\ segment.resolves >= 1)
  => /\ segment.result = NeverStarted
     /\ ~segment.result.completed

\* The step is a poll of the watchdog of the running segment.
IsPoll == segment.pc = "called" /\ segment'.tickDue # segment.tickDue

\* C26: the watchdog settles a segment (as completed) only at a poll that
\* sees the engine neither speaking nor pending and ends a run of such polls
\* that began more than 1.5 s earlier, with no poll in between that saw the
\* engine busy; a poll that sees the engine speaking or pending sets
\* silentSince back to zero and settles nothing.
C26_SustainedSilence ==
  [][IsPoll =>
       /\ (segment.resolves = 0 /\ segment'.resolves = 1)
            => /\ segment'.result = Completed
               /\ SegmentSilent
               /\ ~isCancelledRef
               /\ Len(segment.quiet) >= 1
               /\ now' - Head(segment.quiet) > SilenceWindowMs
               /\ segment'.quiet = Append(segment.quiet, now')
       /\ (~SegmentSilent /\ ~segment.settled /\ ~isCancelledRef)
            => /\ segment'.silentSince = 0
               /\ segment'.resolves = segment.resolves
               /\ ~segment'.settled]_vars

\* the watchdog settled the segment after a silence that began later than the
\* first poll: the engine was busy at first and then stalled
C26_Witness ==
  /\ segment.event = "watchdog"
  /\ segment.settled
  /\ segment.result = Completed
  /\ segment.utterance = "stalled"
  /\ Len(segment.quiet) >= 2
  /\ Head(segment.quiet) > 2 * WatchdogPeriodMs + MaxLateMs + 1

\* The place of a call in its chunks: chunk index and attempt, in one number
\* that grows with the index first and the attempt second.
PlaceOf(call) == call.i * (MaxAttempts + 1) + call.attempt

\* The step is the engine reporting the end of the utterance that call c is
\* awaiting (onend, or the interrupted / canceled report that speakChunkWeb
\* takes as completed).
AttemptSucceeds(c) ==
  /\ calls[c].pc = "chunk"
  /\ \/ /\ synthQueue # <<>>
        /\ Head(synthQueue) = CurrentUtterance(World, c)
        /\ SynthEnd
     \/ SynthCancelEvent(CurrentUtterance(World, c))

\* What both readings of the stopping rule share: the attempts at a chunk are
\* numbered 1 to 3 and every submission is for a later chunk, or a later
\* attempt at the same chunk, than everything submitted before; the counter
\* changes only by one step up or back to 0, and a successful attempt sets it
\* to 0.
RetriesNumbered(c) ==
  /\ calls'[c].attempt <= MaxAttempts
  /\ \A u \in Submitted(c) :
       /\ u.a \in 1..MaxAttempts
       /\ u.i = calls'[c].i /\ u.a = calls'[c].attempt
       /\ calls[c].pc # "reset" => PlaceOf(calls'[c]) > PlaceOf(calls[c])
  /\ (InFlight(c) /\ calls'[c].pc \in {"chunk", "backoff"})
       => PlaceOf(calls'[c]) >= PlaceOf(calls[c])
  /\ calls'[c].fails \in {calls[c].fails, calls[c].fails + 1, 0}
  /\ AttemptSucceeds(c) => calls'[c].fails = 0

\* C27: every chunk is submitted at most 3 times; any successful attempt
\* resets the consecutive-failure counter to 0; and once 5 chunks in a row
\* have failed their first attempt the run is over and submits nothing more.
C27_RetriesBounded ==
  [][\A c \in CallIds :
       /\ RetriesNumbered(c)
       /\ calls'[c].streak >= MAX_CONSECUTIVE_FAILURES
            => ~InFlight(c)' /\ Submitted(c) = {}]_vars

\* C27, amended: the run is over once the counter reaches 5, that is after 5
\* first attempts in a row have failed with no attempt, first or retry,
\* succeeding in between; a chunk whose retry succeeds starts the count anew.
C27_RetriesBoundedByCounter ==
  [][\A c \in CallIds :
       /\ RetriesNumbered(c)
       /\ calls'[c].fails < MAX_CONSECUTIVE_FAILURES
       /\ calls'[c].fails <= calls'[c].streak
       /\ calls'[c].fails = calls[c].fails + 1
            => /\ calls'[c].pc = "backoff" /\ calls'[c].attempt = 1
               /\ calls'[c].streak = calls[c].streak + 1
       /\ (/\ calls[c].pc = "chunk" /\ calls[c].attempt = 1
           /\ calls[c].fails = MAX_CONSECUTIVE_FAILURES - 1
           /\ (calls'[c].pc # "chunk" \/ PlaceOf(calls'[c]) # PlaceOf(calls[c])))
            => \/ calls'[c].fails = 0 /\ InFlight(c)'
               \/ ~InFlight(c)' /\ Submitted(c) = {}]_vars

\* the run gave up at its fifth chunk, uncancelled, with the sixth chunk
\* never submitted
C27_Witness ==
  /\ hook = "web"
  /\ calls[1].pc = "done"
  /\ calls[1].text = "many"
  /\ ~isCancelledRef
  /\ ~calls[1].res.success
  /\ currentChunkIndexRef = MAX_CONSECUTIVE_FAILURES - 1
  /\ currentChunkIndexRef < ManyChunks - 1

\* The step schedules a retry of the chunk of call c: it ends a failed attempt
\* and starts the wait before the next one.
RetryScheduled(c) ==
  /\ calls'[c].pc = "backoff"
  /\ calls[c].pc # "backoff" \/ PlaceOf(calls'[c]) # PlaceOf(calls[c])

\* The delay before the previous retry of the same chunk, 0 when there was none.
PreviousDelay(c) ==
  IF calls[c].pc \in {"chunk", "backoff"} /\ calls[c].i = calls'[c].i
  THEN calls[c].delay ELSE 0

\* C28: before every resubmission of a failed chunk the driver calls
\* speechSynthesis.cancel() and then waits a delay; the first retry waits
\* 300 + 200 * consecutiveFailures ms, and within the retries of one chunk
\* each delay is longer than the delay before the previous retry.
C28_IncreasingBackoff ==
  [][\A c \in CallIds :
       /\ RetryScheduled(c)
            => /\ synthQueue' = <<>> /\ ~synthSpeaking'
               /\ calls'[c].delay > 0
               /\ calls'[c].attempt = 1
                    => calls'[c].delay = BackoffBaseMs + calls'[c].fails * BackoffStepMs
               /\ calls'[c].delay > PreviousDelay(c)
       /\ \A u \in Submitted(c) :
            u.a > 1 => calls[c].pc = "backoff" /\ calls[c].delay > 0]_vars

\* chunks[i] of the run of a call: the chunkText that tryWebSpeech hands to
\* speakChunkWeb
chunkText(call) == ChunksOf[call.text][call.i + 1]

\* The texts that a step of call c hands to speakChunkWeb: the chunk of the
\* place the call has moved to.
HandedToEngine(c) ==
  IF calls'[c].pc \in {"chunk", "backoff"} /\ PlaceOf(calls'[c]) # PlaceOf(calls[c])
  THEN {chunkText(calls'[c])} ELSE {}

\* C29: when the outcome of a segment is flagged stoppedEarly, what the
\* driver submits next is the segment split into smaller sub-segments: the
\* text it hands to the engine after the wait is shorter than the segment,
\* never the same whole segment text.
C29_StoppedEarlyRechunked ==
  [][\A c \in CallIds :
       (calls[c].pc = "backoff" /\ calls[c].stoppedEarly)
         => \A t \in HandedToEngine(c) :
              /\ Len(t) < Len(chunkText(calls[c]))
              /\ t # chunkText(calls[c])]_vars

\* The step is a pause() issued by the heartbeat that call h set.
PulseBy(h) == ~keepAlive.paused /\ keepAlive'.paused /\ keepAlive'.by = h

\* Call h is inside the chunk loop of its tryWebSpeech run.
RunInProgress(h) == calls[h].pc \in {"chunk", "backoff", "running"}

\* C30: the heartbeat calls pause() only at a tick at which the engine
\* reports speaking and not paused; every such pause schedules a resume()
\* that is still outstanding for as long as the engine is paused; no heartbeat
\* exists on a mobile user agent; and the heartbeat of a run issues no pulse
\* once that run has ended or stop() has been called.
C30_PulsesOnlyDuringSpeech ==
  [][/\ \A h \in CallIds :
          PulseBy(h)
            => /\ synthSpeaking /\ ~keepAlive.paused
               /\ keepAlive'.resumes = keepAlive.resumes + 1
               /\ ~isMobile
               /\ RunInProgress(h)
               /\ ~isCancelledRef
     /\ keepAlive'.paused => keepAlive'.resumes >= 1
     /\ isMobile => heartbeats' = {} /\ ~keepAlive'.paused]_vars

\* C31: at most one heartbeat interval is scheduled at any time, and when no
\* speak call is in flight none is scheduled.
C31_NoHeartbeatLeak ==
  /\ Cardinality(heartbeats) <= 1
  /\ (\A c \in CallIds : ~InFlight(c)) => heartbeats = {}

\* C32: whenever no speak call is in flight and no premium audio element is
\* held (a premium call settles when its audio starts to play), the
\* isSpeaking that the mounted hook returns is false.
C32_IdleNotSpeaking ==
  (audioRef = 0 /\ \A c \in CallIds : ~InFlight(c)) => ~ReportedSpeaking(World)

\* C33: when a speak call settles after the caller invoked stop() during
\* it, the call does not report the message reserved for engines that could
\* not speak, and useSmartTTS state.error stays empty.
C33_StopIsBenign ==
  [][\A c \in CallIds :
       (InFlight(c) /\ calls[c].stopped /\ ~InFlight(c)')
         => /\ calls'[c].res.error # "Voice not available on this device"
            /\ state'.error = ""]_vars

\* The step is the safety timer of native call p firing.
TimerFires(p) == nativeCalls[p].timer /\ ~nativeCalls'[p].timer

\* C34: the safety timer of a speakWithAndroidNative call never unregisters
\* the callbacks that another call registered and never resolves another
\* call; and the promise of a pending call is resolved only by its own timer
\* or by the answer of the bridge to the request of that call.
C34_StaleEventsIgnored ==
  [][\A p \in NativeCallIds :
       /\ TimerFires(p)
            => /\ onAndroidTTSDone \notin {0, p} => onAndroidTTSDone' = onAndroidTTSDone
               /\ onAndroidTTSError \notin {0, p} => onAndroidTTSError' = onAndroidTTSError
               /\ \A q \in NativeCallIds \ {p} : nativeCalls'[q] = nativeCalls[q]
       /\ (nativeCalls[p].pc = "pending" /\ nativeCalls'[p].pc = "resolved")
            => \/ TimerFires(p)
               \/ \E r \in bridgeQueue \ bridgeQueue' : r.p = p]_vars

\* What the running request read from the tables lets it update: the token
\* row existed, was not revoked and not expired when it was read, is a school
\* token of schoolUuid; the school row has that id and school_id, is not
\* banned and has not fee_paid = false; every targeted student that was
\* found belongs to that school.
RequestAuthorized ==
  /\ approval.data # Null
  /\ ~approval.data.is_revoked
  /\ approval.data.expires_at >= approval.checkedAt
  /\ approval.data.user_type = "school"
  /\ approval.data.user_id = approval.body.schoolUuid
  /\ approval.school # Null
  /\ approval.school.id = approval.body.schoolUuid
  /\ approval.school.school_id = approval.body.schoolId
  /\ ~approval.school.is_banned
  /\ approval.school.fee_paid # "false"
  /\ \A s \in approval.found : s.school_id = approval.school.id

\* C35: the school-student-approval handler changes a row of students only
\* in a request whose earlier reads showed a valid school session token of
\* schoolUuid, an existing, unbanned school with fees not unpaid, and only
\* students of that school among the targeted ones that exist; and a step
\* that ends the request with an error status changes no student row.
C35_ApprovalAuthorized ==
  [][/\ students' # students
          => /\ approval.pc = "update"
             /\ RequestAuthorized
             /\ approval'.status = 200
     /\ (approval'.pc = "done" /\ approval'.status # 200) => students' = students]_vars

\* A request has been answered with 200 although the token was revoked after
\* it was checked, and a student is approved.
C35_Witness ==
  /\ approval.pc = "done"
  /\ approval.status = 200
  /\ \E s \in students : s.is_approved /\ s.approved_at = RequestTime
  /\ \E r \in sessionTokens : r.is_revoked


\* C36: an answer the text-to-speech edge function takes from its cache
\* carries audio stored at most CACHE_TTL_MS (30 minutes) before, and the
\* cache never holds more than 100 entries once a request has stored into it.
C36_CacheFreshAndBounded ==
  /\ (ttsRequests.response.status = 200 /\ ttsRequests.response.cached)
        => ttsRequests.response.age <= CACHE_TTL_MS
  /\ Len(audioCache) <= ServerCacheLimit

\* The full cache has dropped its oldest entry, and a request has been
\* answered from an entry stored exactly 30 minutes before.
C36_Witness ==
  /\ Len(audioCache) = ServerCacheLimit
  /\ audioCache[1].key > 1
  /\ ttsRequests.response.status = 200
  /\ ttsRequests.response.cached
  /\ ttsRequests.response.age = CACHE_TTL_MS


\* Every toggleChapterComplete call that was made has settled.
TogglesSettled == \A i \in 1..Len(toggles) : toggles[i].pc = "done"

\* C37: once all toggleChapterComplete calls have settled, the local progress
\* list has at most one entry per chapter, every local entry has the
\* is_completed of its stored row, and completed_at is non-null exactly when
\* is_completed is true, in the list and in the table.
C37_ProgressMatchesTable ==
  TogglesSettled
    => /\ \A i, j \in 1..Len(progress) : progress[i].chapter = progress[j].chapter => i = j
       /\ \A i \in 1..Len(progress) :
            \E r \in chapterRows : /\ r.id = progress[i].id
                                  /\ r.is_completed = progress[i].is_completed
       /\ \A i \in 1..Len(progress) :
            progress[i].is_completed <=> progress[i].completed_at # NullTime
       /\ \A r \in chapterRows : r.is_completed <=> r.completed_at # NullTime


\* What the hook reports about the list is the same before and after the step.
ReportsUnchanged ==
  /\ getCompletedCount(progress') = getCompletedCount(progress)
  /\ \A ch \in Chapters :
       isChapterComplete(progress', ch) <=> isChapterComplete(progress, ch)

\* C38: a toggleChapterComplete call whose update or insert failed leaves the
\* local progress list as it was when its answer arrived, so that
\* isChapterComplete and getCompletedCount report what they reported before,
\* and shows the error toast; a call without a student id sends nothing,
\* leaves the list alone and shows the login toast.
C38_ToggleAtomicOnError ==
  [][/\ \A i \in 1..Len(toggles) :
          (toggles[i].pc = "answered" /\ toggles[i].error /\ toggles'[i].pc = "done")
            => /\ progress' = progress
               /\ ReportsUnchanged
               /\ toggles'[i].toast = "Error"
     /\ (Len(toggles') > Len(toggles) /\ chapterStudentId = "none")
          => /\ progress' = progress
             /\ ReportsUnchanged
             /\ chapterRows' = chapterRows
             /\ toggles'[Len(toggles')].pc = "done"
             /\ toggles'[Len(toggles')].toast = "Login Required"]_vars

\* One call has completed a chapter and another, refused by the database,
\* has shown the error toast beside a list that holds a completed chapter.
C38_Witness ==
  /\ \E i, j \in 1..Len(toggles) :
       /\ toggles[i].toast = "Error"
       /\ toggles[j].toast = "Chapter Complete!"
  /\ getCompletedCount(progress) = 1


\* C39: SchoolLogin goes to /school-dashboard only in the step that receives
\* a login answer with success and no required reset, or a reset_password
\* answer without error; a login answered otherwise than with success
\* changes nothing in storage and does not navigate; a reset request is sent
\* only with two equal new passwords of at least 8 characters; and isLoading
\* is false whenever no handler is running.
C39_LoginGate ==
  [][/\ route' # route
          => /\ route' = Dashboard
             /\ \/ login.pc = "login" /\ login'.answer = "success"
                \/ login.pc = "reset" /\ login'.answer = "ok"
     /\ (login.pc = "login" /\ login'.pc = "idle"
           /\ login'.answer \notin {"success", "successReset"})
          => storage' = storage /\ route' = route
     /\ (login.pc # "reset" /\ login'.pc = "reset")
          => /\ login.newPassword = login.confirmPassword
             /\ Len(login.newPassword) >= MinPasswordLen
     /\ login'.pc = "idle" => ~login'.isLoading]_vars

\* The dashboard was reached through the reset form, and the token the
\* reset gave is stored.
C39_Witness ==
  /\ route = Dashboard
  /\ login.answer = "ok"
  /\ login.requiresPasswordReset
  /\ storage.schoolSessionToken = "tok2"
  /\ ~login.isLoading

====
